---- MODULE Spec2Model ----
(***************************************************************************)
(* Model of the IdleNet agent: the resource Manager (admission control),   *)
(* the JobExecutor (artifact download + digest verification + sandbox      *)
(* hand-off), the WASM Sandbox (VerifyWASM, Execute with its guest         *)
(* goroutine and deadline timer), the scheduler loop of main() and the     *)
(* updater (VersionChecker, Downloader, SelfUpdater, UpdateManager).       *)
(*                                                                         *)
(* Time is kept as the whole seconds elapsed since Manager.lastCheck,      *)
(* saturating at the cache window: the only thing the code does with       *)
(* lastCheck is compare time.Since(lastCheck) with 5 seconds.              *)
(***************************************************************************)
EXTENDS Integers, Sequences, FiniteSets, TLC

VARIABLES
    \* ---- resource.Manager -------------------------------------------
    userPreference,     \* Manager.userPreference
    sinceLastCheck,     \* seconds since Manager.lastCheck, saturating at CacheSeconds
    currentCPULimit,    \* Manager.currentCPULimit
    currentMemLimit,    \* Manager.currentMemLimit
    numCPU,             \* runtime.NumCPU() of the host
    ret,                \* observation of the last Manager call (operation, probe, results)
    \* ---- scheduler loop of main() -----------------------------------
    pc,                 \* position of the single scheduler goroutine
    ctxCancelled,       \* cancel() has been called on the root context
    tick,               \* what the current job tick has done so far
    sigChan,            \* sigChan (capacity 1): a signal is waiting; where the loop was at delivery
    \* ---- JobExecutor.ExecuteJob / downloadAndVerify -----------------
    job,                \* the job handed to ExecuteJob (declared digest)
    resp,               \* HTTP response of http.Get (status, body)
    fs,                 \* job directory: dir present, job.wasm, job.wasm.tmp
    pre,                \* fs as it was when downloadAndVerify was entered
    offset,             \* bytes of the body copied so far by io.Copy
    hasher,             \* running state of the digest accumulator
    actualSHA256,       \* the measured digest, once computed (empty before)
    dlErr,              \* return value of downloadAndVerify
    wasmBytes,          \* bytes read back from the artifact path
    sandbox,            \* what the sandbox was asked to do for this job
    result,             \* JobResult / error returned by ExecuteJob
    elapsed,            \* seconds since ExecuteJob was called, saturating at TimeCap
    \* ---- wasm.Sandbox ------------------------------------------------
    sbx,                \* the Sandbox object: config and engine
    run,                \* the Execute call in progress: its locals, store, guest goroutine
    vret,               \* observation of the last VerifyWASM call
    \* ---- updater -----------------------------------------------------
    currentVersion,     \* UpdateManager.currentVersion / VersionChecker.currentVersion
    upc,                \* position of the goroutine inside CheckAndUpdate
    ufs,                \* the executable, its .backup and the downloaded temp file
    upd,                \* locals of the CheckAndUpdate call in progress and what it returned
    \* ---- job directories and the canary runner -------------------------
    wd,                 \* the directory tree around the work root, and the job directory in use
    rj                  \* the RunJob call in progress: its locals, its clock, what it returned

mgrVars == <<userPreference, sinceLastCheck, currentCPULimit, currentMemLimit, numCPU, ret>>
loopVars == <<pc, ctxCancelled, tick>>
sbVars == <<elapsed, sbx, run, vret>>
jobVars == <<job, resp, pre, offset, hasher, actualSHA256, dlErr, wasmBytes, result>>
execVars == <<job, resp, pre, offset, hasher, actualSHA256, dlErr, wasmBytes, sandbox, result,
              elapsed, sbx, run, vret>>
vars == <<userPreference, sinceLastCheck, currentCPULimit, currentMemLimit, numCPU, ret,
          pc, ctxCancelled, tick,
          job, resp, fs, pre, offset, hasher, actualSHA256, dlErr, wasmBytes, sandbox, result,
          elapsed, sbx, run, vret,
          sigChan, currentVersion, upc, ufs, upd, wd, rj>>
updVars == <<currentVersion, upc, ufs, upd>>

Min(a, b) == IF a < b THEN a ELSE b
Max(a, b) == IF a > b THEN a ELSE b

(***************************************************************************)
(* Bounds of the model.                                                    *)
(***************************************************************************)
MaxIdleSecs == 301      \* idle times 0..MaxIdleSecs seconds are probed
MaxCores == 10          \* hosts with 1..MaxCores cores
ChunkLen == 4           \* bytes one io.Copy write moves
TimeStep == 15          \* seconds one step of the wall clock advances
TimeCap == 45           \* the wall clock is followed this far into a call
FuelStep == 5000000     \* fuel one step of guest work consumes

(***************************************************************************)
(* Program constants.                                                      *)
(***************************************************************************)
CacheSeconds == 5
LaptopMaxCores == 8
DefaultCPU == 10
DefaultMem == 10
FuelPerSecond == 1000000
LowResourceCPU == 50
MaxTimeout == 1800

Modes == {"aggressive", "balanced", "conservative", "idle-only", "", "turbo"}

(***************************************************************************)
(* idle.GetActivityLevel: idle time -> activity level 0..100.              *)
(***************************************************************************)
GetActivityLevel(idleSecs) ==
    IF idleSecs < 1 THEN 0
    ELSE IF idleSecs > 300 THEN 100
    ELSE (idleSecs * 100) \div 300

\* The outcomes of one probe: an error, or a level computed from an idle time.
ProbeFail == [ok |-> FALSE, level |-> 0]
Probes == {ProbeFail} \cup {[ok |-> TRUE, level |-> GetActivityLevel(s)] : s \in 0..MaxIdleSecs}

(***************************************************************************)
(* resource.NewManager: an empty preference means "balanced".              *)
(***************************************************************************)
NewManager(preference) == IF preference = "" THEN "balanced" ELSE preference

(***************************************************************************)
(* The switch of GetLimits: limits of a mode at an activity level, before  *)
(* the platform cap.                                                       *)
(***************************************************************************)
ModeLimits_TiesUp(pref, level) ==
    CASE pref = "aggressive" ->
            IF level >= 80 THEN <<80, 60>>
            ELSE IF level >= 50 THEN <<50, 40>>
            ELSE <<30, 25>>
      [] pref = "balanced" ->
            IF level >= 90 THEN <<70, 50>>
            ELSE IF level >= 60 THEN <<40, 30>>
            ELSE IF level >= 30 THEN <<20, 15>>
            ELSE <<10, 10>>
      [] pref = "conservative" ->
            IF level >= 95 THEN <<50, 30>>
            ELSE IF level >= 80 THEN <<25, 20>>
            ELSE <<5, 5>>
      [] pref = "idle-only" ->
            IF level >= 95 THEN <<60, 40>>
            ELSE <<0, 0>>
      [] OTHER -> <<20, 15>>

ModeLimits(pref, level) ==
    CASE pref = "aggressive" ->
            IF level > 80 THEN <<80, 60>>
            ELSE IF level > 50 THEN <<50, 40>>
            ELSE <<30, 25>>
      [] pref = "balanced" ->
            IF level > 90 THEN <<70, 50>>
            ELSE IF level > 60 THEN <<40, 30>>
            ELSE IF level > 30 THEN <<20, 15>>
            ELSE <<10, 10>>
      [] pref = "conservative" ->
            IF level > 95 THEN <<50, 30>>
            ELSE IF level > 80 THEN <<25, 20>>
            ELSE <<5, 5>>
      [] pref = "idle-only" ->
            IF level > 95 THEN <<60, 40>>
            ELSE <<0, 0>>
      [] OTHER -> <<20, 15>>

isLaptop(cores) == cores <= LaptopMaxCores

\* "Cap maximums for stability": the platform cap of a host.
PlatformCap_NoLaptop(cores) == <<80, 60>>

PlatformCap(cores) == IF isLaptop(cores) THEN <<60, 40>> ELSE <<80, 60>>

CapLimits(pair, cores) ==
    <<Min(pair[1], PlatformCap(cores)[1]), Min(pair[2], PlatformCap(cores)[2])>>

\* The pair GetLimits stores when it recomputes, for one probe outcome.
Recompute(pref, probe, cores) ==
    IF ~probe.ok THEN <<DefaultCPU, DefaultMem>>
    ELSE CapLimits(ModeLimits(pref, probe.level), cores)

(***************************************************************************)
(* Manager.GetLimits as a state change.  The call returns the stored pair  *)
(* (currentCPULimit', currentMemLimit') on both paths.                     *)
(***************************************************************************)
CacheFresh_Inclusive == sinceLastCheck <= CacheSeconds

CacheFresh == sinceLastCheck < CacheSeconds

GetLimits(probe) ==
    IF CacheFresh
    THEN UNCHANGED <<sinceLastCheck, currentCPULimit, currentMemLimit>>
    ELSE /\ sinceLastCheck' = 0
         /\ currentCPULimit' = Recompute(userPreference, probe, numCPU)[1]
         /\ currentMemLimit' = Recompute(userPreference, probe, numCPU)[2]

\* Manager.ShouldRunJob: cpu > 0 on the value its GetLimits call returned.
ShouldRun_NonNegative(cpu) == cpu >= 0

ShouldRun(cpu) == cpu > 0

\* Manager.GetCoreCount on the value its GetLimits call returned.
AllowedCores_NoFloor(totalCores, cpuLimit) == (totalCores * cpuLimit) \div 100

AllowedCores(totalCores, cpuLimit) ==
    LET allowedCores == (totalCores * cpuLimit) \div 100
    IN  IF allowedCores < 1 /\ cpuLimit > 0 THEN 1 ELSE allowedCores

\* What a Manager call leaves behind for inspection.
Observe(op, probe) ==
    [op |-> op, probed |-> ~CacheFresh, probeOK |-> probe.ok, level |-> probe.level,
     cpu |-> currentCPULimit', mem |-> currentMemLimit',
     run |-> ShouldRun(currentCPULimit'),
     cores |-> AllowedCores(numCPU, currentCPULimit')]

NoCall == [op |-> "none", probed |-> FALSE, probeOK |-> FALSE, level |-> 0,
           cpu |-> 0, mem |-> 0, run |-> FALSE, cores |-> 0]

\* A probe is only taken when the cache has expired.
ProbesNow == IF CacheFresh THEN {ProbeFail} ELSE Probes

(***************************************************************************)
(* Files of one job directory.  A path holds a byte sequence or is absent. *)
(***************************************************************************)
Absent == [exists |-> FALSE, data |-> <<>>]
File(bytes) == [exists |-> TRUE, data |-> bytes]
ArtifactPath == "job.wasm"

\* tempPath := destPath + ".tmp"
TempPath_InPlace(destPath) == destPath

TempPath(destPath) == destPath \o ".tmp"

Paths == {ArtifactPath, TempPath(ArtifactPath)}
EmptyDir == [dir |-> FALSE, files |-> [p \in Paths |-> Absent]]

\* os.Create: the file exists and is empty (an existing file is truncated).
Create(f, path) == [f EXCEPT !.files[path] = File(<<>>)]

\* One Write of the temp file's half of the io.MultiWriter.
WriteFile_Drop(f, path, chunk) == f

WriteFile(f, path, chunk) == [f EXCEPT !.files[path] = File(@.data \o chunk)]

\* os.Rename(from, to): atomic replace; the source name disappears.
Rename(f, from, to) ==
    IF from = to THEN f
    ELSE [f EXCEPT !.files[to] = f.files[from], !.files[from] = Absent]

\* os.Remove: the name is gone (an error for a missing file is ignored).
Remove_Keep(f, path) == f

Remove(f, path) == [f EXCEPT !.files[path] = Absent]

\* os.MkdirAll / os.RemoveAll of the job directory.
MkdirAll(f) == [f EXCEPT !.dir = TRUE]
RemoveAll_Keep(f) == f
RemoveAll(f) == EmptyDir

(***************************************************************************)
(* The digest.  SHA-256 is stood in for by an 8-bit running checksum with  *)
(* the same interface (New, Write of a chunk, Sum); hex.EncodeToString     *)
(* writes it as two lower-case hex digits.                                 *)
(***************************************************************************)
HashNew == 90

RECURSIVE HashWrite(_, _)
HashWrite(h, chunk) ==
    IF chunk = <<>> THEN h
    ELSE HashWrite((h * 31 + Head(chunk) + 7) % 256, Tail(chunk))

Sha256Sum(bytes) == HashWrite(HashNew, bytes)

HexDigits == <<"0", "1", "2", "3", "4", "5", "6", "7", "8", "9", "a", "b", "c", "d", "e", "f">>
UpperDigits == <<"0", "1", "2", "3", "4", "5", "6", "7", "8", "9", "A", "B", "C", "D", "E", "F">>

HexEncodeToString(h) == <<HexDigits[(h \div 16) + 1], HexDigits[(h % 16) + 1]>>
UpperHex(h) == <<UpperDigits[(h \div 16) + 1], UpperDigits[(h % 16) + 1]>>

\* actualSHA256 != expectedSHA256 is a comparison of strings.
ChecksumMatches_Always(actual, expected) == TRUE

ChecksumMatches(actual, expected) == actual = expected

\* resp.StatusCode != http.StatusOK
StatusOK_Not5xx(code) == code < 500

StatusOK(code) == code = 200

(***************************************************************************)
(* Inputs: what the artifact server may serve and what a job may declare.  *)
(***************************************************************************)
WasmMagic == <<0, 97, 115, 109>>
WasmVersion == <<1, 0, 0, 0>>
ModuleBytes == WasmMagic \o WasmVersion \o <<1, 5>>
Bodies == {<<>>, <<0, 97>>, ModuleBytes, WasmMagic \o WasmVersion}
Statuses == {200, 204, 404}
\* Time budgets (MaxSeconds) the polled jobs carry.
JobBudgets == {15}
Declared == {<<>>, HexEncodeToString(Sha256Sum(ModuleBytes)), UpperHex(Sha256Sum(ModuleBytes)),
             HexEncodeToString(Sha256Sum(<<0, 97>>)),
             HexEncodeToString(Sha256Sum(WasmMagic \o WasmVersion))}

\* What a crashed earlier run may have left in the job directory.
StaleDir ==
    [dir |-> TRUE,
     files |-> [p \in Paths |-> IF p = ArtifactPath THEN File(<<0, 97>>) ELSE File(<<0>>)]]

(***************************************************************************)
(* Sandbox.VerifyWASM: the three structural checks; compilation by the     *)
(* engine follows only when they pass.                                     *)
(***************************************************************************)
StructurallyValid(bytes) ==
    /\ Len(bytes) >= 8
    /\ SubSeq(bytes, 1, 4) = WasmMagic
    /\ SubSeq(bytes, 5, 8) = WasmVersion

(***************************************************************************)
(* wasm.Sandbox.  Times are in seconds, fuel in wasmtime fuel units.       *)
(***************************************************************************)
DefaultSandboxConfig == [MaxMemoryPages |-> 64, MaxExecutionTime |-> 30, CPUTimeLimit |-> 10]

\* NewExecutor: "Reduce WASM limits for low-resource mode" when cpuLimit < 50.
SandboxConfigFor(cpuLimit) ==
    IF cpuLimit < LowResourceCPU
    THEN [MaxMemoryPages |-> 32, MaxExecutionTime |-> 15, CPUTimeLimit |-> 5]
    ELSE DefaultSandboxConfig

\* NewSandbox: an engine that meters fuel and has bulk memory, reference types,
\* multi-value, threads and SIMD switched off.
NewSandbox(config) == [config |-> config, engine |-> [consumeFuel |-> TRUE, features |-> {}]]

\* Module bodies the sandbox is given besides those the artifact server serves.
HeaderOnly == WasmMagic \o WasmVersion
BadMagic == <<255, 97, 115, 109, 1, 0, 0, 0>>
BadVersion == WasmMagic \o <<2, 0, 0, 0>>
Malformed == WasmMagic \o WasmVersion \o <<9>>
SimdModule == WasmMagic \o WasmVersion \o <<1, 6>>
SandboxBodies == {<<0, 97>>, BadMagic, BadVersion, HeaderOnly, ModuleBytes, Malformed, SimdModule}

\* wasmtime.NewModule(engine, bytes): the engine's judgement of a body is a
\* fixed property of the bytes and of the engine's configuration.  Of the
\* bodies here HeaderOnly (an empty module), ModuleBytes (a module exporting
\* "main") and SimdModule (one that needs SIMD) are well formed.
WellFormed == {HeaderOnly, ModuleBytes, SimdModule}
Features(bytes) == IF bytes = SimdModule THEN {"simd"} ELSE {}
Compiles(engine, bytes) == bytes \in WellFormed /\ Features(bytes) \subseteq engine.features

\* instance.GetFunc(store, funcName) != nil
ExportsFunc(bytes, funcName) == bytes = ModuleBytes /\ funcName = "main"

\* Sandbox.VerifyWASM: the returned error ("nil" for none) and whether the
\* trial compilation was attempted.
VerifyWASM_NoVersionCheck(s, bytes) ==
    IF Len(bytes) < 8
    THEN [err |-> "invalid WASM: file too short", compiled |-> FALSE]
    ELSE IF SubSeq(bytes, 1, 4) # WasmMagic
    THEN [err |-> "invalid WASM: missing magic number", compiled |-> FALSE]
    ELSE IF ~Compiles(s.engine, bytes)
    THEN [err |-> "WASM validation failed", compiled |-> TRUE]
    ELSE [err |-> "nil", compiled |-> TRUE]

VerifyWASM_SharesRun(s, bytes) ==
    IF run.stage \in {"go", "parked", "usage"}
    THEN [err |-> "WASM validation failed", compiled |-> TRUE]
    ELSE IF ~StructurallyValid(bytes)
    THEN [err |-> "invalid WASM", compiled |-> FALSE]
    ELSE IF ~Compiles(s.engine, bytes)
    THEN [err |-> "WASM validation failed", compiled |-> TRUE]
    ELSE [err |-> "nil", compiled |-> TRUE]

VerifyWASM(s, bytes) ==
    IF Len(bytes) < 8
    THEN [err |-> "invalid WASM: file too short", compiled |-> FALSE]
    ELSE IF SubSeq(bytes, 1, 4) # WasmMagic
    THEN [err |-> "invalid WASM: missing magic number", compiled |-> FALSE]
    ELSE IF bytes[5] # 1 \/ bytes[6] # 0 \/ bytes[7] # 0 \/ bytes[8] # 0
    THEN [err |-> "unsupported WASM version", compiled |-> FALSE]
    ELSE IF ~Compiles(s.engine, bytes)
    THEN [err |-> "WASM validation failed", compiled |-> TRUE]
    ELSE [err |-> "nil", compiled |-> TRUE]

\* fuelLimit := uint64(CPUTimeLimit.Seconds() * 1000000)
FuelLimit(config) == config.CPUTimeLimit * FuelPerSecond

\* execCtx: the caller's context with MaxExecutionTime as a further timeout.
\* The argument is the time the caller's context has left (0: already done).
ExecDeadline(ctxLeft, config) == Min(ctxLeft, config.MaxExecutionTime)

\* result.FuelUsed = fuelLimit - fuelConsumed (fuelConsumed never exceeds fuelLimit).
FuelUsed(fuelLimit, fuelConsumed) == fuelLimit - fuelConsumed

\* fmt.Sprintf("Execution error: %v", execErr): the engine's message follows the prefix.
ExecutionError_NoDetail(msg) == "Execution error"

ExecutionError(msg) == "Execution error: " \o msg

\* The messages of the engine's traps: fuel exhausted, and any other trap.
FuelTrap == "all fuel consumed by WebAssembly"
OtherTraps == {"wasm trap: unreachable", "wasm trap: out of bounds memory access"}

\* What the guest's entry point may hand back: nothing, or a value.
ReturnValues == {"nil", "42"}

\* Output of a successful run.
SuccessOutput(returnValue) ==
    IF returnValue # "nil" THEN "Return value: " \o returnValue
    ELSE "Function executed successfully"

\* Memory sizes (pages of 64KB) a module may declare or a guest may grow to.
GuestPages == {1, 33, 65}

ZeroResult == [Success |-> FALSE, Output |-> "", Error |-> "", FuelUsed |-> 0]
NoRun == [stage |-> "idle", bytes |-> <<>>, budget |-> 0, deadline |-> 0, t |-> 0,
          expired |-> FALSE, fuelLimit |-> 0, consumed |-> 0, guest |-> "none",
          value |-> "nil", trap |-> "none", inBudget |-> FALSE, pages |-> 0, taken |-> "none",
          order |-> <<>>, passed |-> <<>>, result |-> ZeroResult]
NoVerify == [called |-> FALSE, bytes |-> <<>>, err |-> "nil", compiled |-> FALSE]

(***************************************************************************)
(* The updater.  Version strings are sequences of characters; a Go string  *)
(* comparison orders them byte by byte.  The files are the running         *)
(* executable, its backup and the downloaded update; SelfUpdater is        *)
(* followed on its Unix path (applyUpdateUnix).                            *)
(***************************************************************************)
DecDigits == <<"0", "1", "2", "3", "4", "5", "6", "7", "8", "9">>

\* The byte value of a character of a version string.
Ascii(c) ==
    IF c = "." THEN 46
    ELSE IF c = "v" THEN 118
    ELSE 47 + (CHOOSE i \in 1..10 : DecDigits[i] = c)

\* a < b on Go strings: the first differing byte decides, a proper prefix is smaller.
RECURSIVE StringLess(_, _)
StringLess(a, b) ==
    IF b = <<>> THEN FALSE
    ELSE IF a = <<>> THEN TRUE
    ELSE IF Head(a) = Head(b) THEN StringLess(Tail(a), Tail(b))
    ELSE Ascii(Head(a)) < Ascii(Head(b))

\* strings.TrimPrefix(s, prefix)
TrimPrefix(s, prefix) ==
    IF Len(s) >= Len(prefix) /\ SubSeq(s, 1, Len(prefix)) = prefix
    THEN SubSeq(s, Len(prefix) + 1, Len(s))
    ELSE s

\* VersionChecker.compareVersions: 1 if v1 > v2, -1 if v1 < v2, 0 if equal,
\* by comparison of the strings.
compareVersions(v1, v2) ==
    IF StringLess(v2, v1) THEN 1
    ELSE IF StringLess(v1, v2) THEN -1
    ELSE 0

\* The tail of CheckForUpdate: isNewer for a decoded release tag.
IsNewer(tagName, current) ==
    compareVersions(TrimPrefix(tagName, <<"v">>), TrimPrefix(current, <<"v">>)) > 0

\* Versions the agent is built with and tags the release feed may carry.
CurrentVersions == {<<"v", "1", ".", "9", ".", "0">>, <<"2", ".", "0", ".", "0">>}
ReleaseTags ==
    {<<"v", "1", ".", "9", ".", "0">>, <<"v", "1", ".", "1", "0", ".", "0">>,
     <<"v", "2", ".", "0", ".", "0">>, <<"v", "1", "0", ".", "0", ".", "0">>}

\* su.currentExePath, su.backupPath = exePath + ".backup", and the temp file
\* filepath.Join(d.tempDir, assetName) of the Downloader.
ExePath == "idlenet"
BackupPath(exePath) == exePath \o ".backup"
UpdatePath == "idlenet-updates/idlenet-linux-amd64"
UpdPaths == {ExePath, BackupPath(ExePath), UpdatePath}

\* The running executable, the backup an earlier update left behind, the
\* binary the release publishes, and what else the server may send for it.
OrigExe == <<127, 69, 76, 70, 1, 0>>
OldBackup == <<127, 69, 76, 70, 0, 0>>
NewBinary == <<127, 69, 76, 70, 2, 0>>
TamperedBinary == <<127, 69, 76, 70, 9, 9>>
ErrorPage == <<60, 104>>
UpdateResponses ==
    {[status |-> 200, body |-> NewBinary], [status |-> 200, body |-> TamperedBinary],
     [status |-> 404, body |-> ErrorPage]}

\* d.getAssetName() on this platform, and the asset lists a release may carry.
AssetName == "idlenet-linux-amd64"
ReleaseAssets == {{}, {"idlenet-windows-amd64.exe"}, {"idlenet-windows-amd64.exe", AssetName}}

\* The loop over release.Assets: is there an asset with asset.Name == assetName?
FindAsset_AnyAsset(assets, assetName) == assets # {}

FindAsset(assets, assetName) == assetName \in assets

\* Downloader.VerifyChecksum(filepath, expectedChecksum): "nil" or the error.
VerifyChecksum(f, path, expectedChecksum) ==
    IF ~f.files[path].exists THEN "open"
    ELSE IF HexEncodeToString(Sha256Sum(f.files[path].data)) # expectedChecksum
    THEN "checksum mismatch"
    ELSE "nil"

\* SelfUpdater.Rollback once the backup was found: os.Rename(su.backupPath, su.currentExePath)
Rollback_KeepsNew(f) == f

Rollback(f) == Rename(f, BackupPath(ExePath), ExePath)

(***************************************************************************)
(* Initial states.                                                         *)
(***************************************************************************)
NoJob == [sha256 |-> <<>>, maxSeconds |-> 0]
NoResp == [status |-> 0, body |-> <<>>]
NoErr == [kind |-> "running"]
NilErr == [kind |-> "nil"]
IdleSandbox == [verified |-> FALSE, started |-> FALSE]
NoResult == [kind |-> "none"]
NoTick == [decided |-> FALSE, run |-> FALSE, cpu |-> 0]
NoSignal == [pending |-> FALSE, inJob |-> FALSE]

\* The locals of a CheckAndUpdate call: its argument, the release it got,
\* the response and copy offset of the download, the step at which
\* ApplyUpdate failed, what Rollback returned, what the call returned, and
\* the files as they were when it was called.
NoFiles == [files |-> [p \in UpdPaths |-> Absent]]
NoUpd == [autoApply |-> FALSE, checked |-> FALSE, tagName |-> <<>>, hasUpdate |-> FALSE,
          assets |-> {},
          resp |-> NoResp, off |-> 0, failedAt |-> "none", rollback |-> "none",
          err |-> "running", pre |-> NoFiles]

Installed(backup) ==
    [files |-> [p \in UpdPaths |-> IF p = ExePath THEN File(OrigExe)
                                   ELSE IF p = UpdatePath THEN Absent ELSE backup]]

\* No update is in progress: the installed executable, no backup.
IdleUpdater ==
    /\ currentVersion = <<"v", "1", ".", "9", ".", "0">>
    /\ upc = "idle"
    /\ ufs = Installed(Absent)
    /\ upd = NoUpd

(***************************************************************************)
(* Job directories.  A path is the sequence of its components below "/",   *)
(* a component and a job id are sequences of characters.  The job id comes *)
(* from the server's JSON (api.Job.ID, a string) and reaches filepath.Join *)
(* as it is.                                                               *)
(***************************************************************************)
HomeDir == << <<"h", "o", "m", "e">>, <<"u">> >>

\* NewExecutor: filepath.Join(homeDir, ".idlenet", "work")
WorkDir == HomeDir \o << <<".", "i", "d", "l", "e", "n", "e", "t">>, <<"w", "o", "r", "k">> >>

\* A directory of the user that has nothing to do with the agent.
Documents == HomeDir \o << <<"d", "o", "c", "s">> >>

JobIDs == { <<>>, <<".">>, <<".", ".">>, <<"j", "1">>, <<"j", "1", "/", "x">>,
            <<"/", "j", "2">>, <<"j", "1", "/", ".", ".">>, <<".", ".", "/", ".", ".">> }

\* The components of a path string: the runs of characters between separators.
RECURSIVE SplitPath(_)
SplitPath(chars) ==
    IF \A i \in 1..Len(chars) : chars[i] # "/"
    THEN <<chars>>
    ELSE LET i == CHOOSE k \in 1..Len(chars) :
                      chars[k] = "/" /\ \A m \in 1..(k - 1) : chars[m] # "/"
         IN  <<SubSeq(chars, 1, i - 1)>> \o SplitPath(SubSeq(chars, i + 1, Len(chars)))

\* filepath.Clean on a rooted path: empty components and "." are dropped, ".."
\* removes the component before it, and at the root it is dropped.
RECURSIVE CleanOnto(_, _)
CleanOnto(acc, rest) ==
    IF rest = <<>> THEN acc
    ELSE LET c == Head(rest)
         IN  CleanOnto(IF c = <<>> \/ c = <<".">> THEN acc
                       ELSE IF c = <<".", ".">>
                            THEN (IF acc = <<>> THEN acc ELSE SubSeq(acc, 1, Len(acc) - 1))
                            ELSE Append(acc, c),
                       Tail(rest))

Clean(path) == CleanOnto(<<>>, path)

\* filepath.Join(dir, elem): the elements joined by a separator, then Clean.
Join(dir, elem) == Clean(dir \o SplitPath(elem))

IsPrefix(p, q) == Len(p) <= Len(q) /\ SubSeq(q, 1, Len(p)) = p
ProperDescendant(q, p) == IsPrefix(p, q) /\ Len(q) > Len(p)

\* os.MkdirAll: the directory and every missing parent.
MkdirAllAt(tree, path) == tree \cup {SubSeq(path, 1, n) : n \in 0..Len(path)}

\* os.RemoveAll: the directory and everything below it.
RemoveAllAt(tree, path) == {d \in tree : ~IsPrefix(path, d)}

\* The disk after NewExecutor on a host where the agent ran before.
FreshTree == MkdirAllAt(MkdirAllAt({}, WorkDir), Documents)

NoJobDir == [pc |-> "idle", jobID |-> <<>>, jobDir |-> <<>>, tree |-> FreshTree,
             removed |-> FALSE]

(***************************************************************************)
(* The canary runner: runner.RunJob, and runJob of the agent's main, which *)
(* differ in how the hash loop leaves on a cancelled context.              *)
(***************************************************************************)
DefaultTimeBox == 30
DefaultSleepSeconds == 5
DefaultHashSeconds == 10

Runners == {"RunJob", "runJob"}
JobTypes == {"sleep", "hash", "wasm", ""}
TimeoutSecs == {-5, 0, 3, 8}
ArgSeconds == {0, 2, 6, 32}

\* dl := time.Duration(timeoutSec) * time.Second; if dl <= 0 { dl = 30 * time.Second }
TimeBox(timeoutSec) == IF timeoutSec <= 0 THEN DefaultTimeBox ELSE timeoutSec

\* if a.Seconds <= 0 { a.Seconds = ... }
SecondsOr(seconds, default) == IF seconds <= 0 THEN default ELSE seconds

\* switch jobType
Dispatch_FallThrough(jobType) == IF jobType = "hash" THEN "hash" ELSE "sleep"

Dispatch(jobType) ==
    CASE jobType = "sleep" -> "sleep"
      [] jobType = "hash" -> "hash"
      [] OTHER -> "default"

NoRunJob == [impl |-> "none", pc |-> "idle", jobType |-> "", dl |-> 0, seconds |-> 0,
             now |-> 0, parentAt |-> -1, status |-> "", error |-> "",
             timers |-> 0, hashes |-> 0]

\* ctx of the call: done when the parent is, or when the time box has run out.
TimeBoxDone(r) == r.parentAt >= 0 \/ r.now >= r.dl

\* The moment ctx is done if the call lasts that long.
ExpiresAt(r) == IF r.parentAt >= 0 /\ r.parentAt < r.dl THEN r.parentAt ELSE r.dl

IdleRunner == wd = NoJobDir /\ rj = NoRunJob

InitManager ==
    /\ userPreference \in {NewManager(p) : p \in Modes}
    /\ numCPU \in 1..MaxCores
    /\ sinceLastCheck = 0
    /\ currentCPULimit = 0
    /\ currentMemLimit = 0
    /\ ret = NoCall

InitLoop ==
    /\ pc = "select"
    /\ ctxCancelled = FALSE
    /\ tick = NoTick
    /\ sigChan = NoSignal

InitExec ==
    /\ job = NoJob
    /\ resp = NoResp
    /\ pre = EmptyDir
    /\ offset = 0
    /\ hasher = HashNew
    /\ actualSHA256 = <<>>
    /\ dlErr = NoErr
    /\ wasmBytes = <<>>
    /\ sandbox = IdleSandbox
    /\ result = NoResult
    /\ elapsed = 0
    /\ run = NoRun
    /\ vret = NoVerify

(***************************************************************************)
(* The resource Manager on its own: any caller, any interleaving of its    *)
(* three methods with the passage of time.                                 *)
(***************************************************************************)
\* One second passes; the caller has consumed the last call's return value.
Elapse ==
    /\ sinceLastCheck < CacheSeconds
    /\ sinceLastCheck' = sinceLastCheck + 1
    /\ ret' = NoCall
    /\ UNCHANGED <<userPreference, currentCPULimit, currentMemLimit, numCPU>>

CallManager(op, probes) ==
    \E probe \in probes :
        /\ GetLimits(probe)
        /\ ret' = Observe(op, probe)
        /\ UNCHANGED <<userPreference, numCPU>>

CallGetLimits == CallManager("GetLimits", ProbesNow)
CallShouldRunJob == CallManager("ShouldRunJob", ProbesNow)
CallGetCoreCount == CallManager("GetCoreCount", ProbesNow)

InitResource ==
    /\ InitManager /\ InitLoop /\ InitExec /\ IdleRunner /\ fs = EmptyDir
    /\ sbx = NewSandbox(DefaultSandboxConfig)
    /\ IdleUpdater

NextResource ==
    \/ (Elapse /\ UNCHANGED loopVars /\ UNCHANGED execVars /\ UNCHANGED fs
          /\ UNCHANGED sigChan /\ UNCHANGED <<updVars, wd, rj>>)
    \/ (CallGetLimits /\ UNCHANGED loopVars /\ UNCHANGED execVars /\ UNCHANGED fs
          /\ UNCHANGED sigChan /\ UNCHANGED <<updVars, wd, rj>>)
    \/ (CallShouldRunJob /\ UNCHANGED loopVars /\ UNCHANGED execVars /\ UNCHANGED fs
          /\ UNCHANGED sigChan /\ UNCHANGED <<updVars, wd, rj>>)
    \/ (CallGetCoreCount /\ UNCHANGED loopVars /\ UNCHANGED execVars /\ UNCHANGED fs
          /\ UNCHANGED sigChan /\ UNCHANGED <<updVars, wd, rj>>)

SpecResource == InitResource /\ [][NextResource]_vars

(***************************************************************************)
(* Sandbox.Execute, step by step.  The caller's goroutine walks the stages *)
(* compile, wasi, instantiate, getfunc, call, go (the guest goroutine is   *)
(* running and the select is about to be evaluated), parked (blocked in    *)
(* the select), usage, returned.  The guest goroutine and the deadline     *)
(* timer of execCtx run beside it.                                         *)
(***************************************************************************)
outsideRun == <<userPreference, sinceLastCheck, currentCPULimit, currentMemLimit, numCPU, ret,
                pc, ctxCancelled, tick,
                job, resp, fs, pre, offset, hasher, actualSHA256, dlErr, wasmBytes, result,
                elapsed, sbx, vret, sigChan, currentVersion, upc, ufs, upd, wd, rj>>

SetupStages == {"compile", "wasi", "instantiate", "getfunc", "call"}
WaitStages == {"go", "parked", "usage"}

\* Entry of Execute: result, store with its fuel, execCtx.  A context derived
\* from one that is already done is done from the start.
StartRun(bytes, ctxLeft) ==
    [NoRun EXCEPT !.stage = "compile", !.bytes = bytes, !.budget = ctxLeft,
                  !.deadline = ExecDeadline(ctxLeft, sbx.config),
                  !.expired = (ExecDeadline(ctxLeft, sbx.config) = 0),
                  !.order = IF ExecDeadline(ctxLeft, sbx.config) = 0 THEN <<"deadline">> ELSE <<>>,
                  !.fuelLimit = FuelLimit(sbx.config)]

\* An early "return result, nil" with result.Error set.
Fail_FallsThrough(r, msg) ==
    [r EXCEPT !.stage = "call", !.result = [ZeroResult EXCEPT !.Error = msg]]

Fail(r, msg) == [r EXCEPT !.stage = "returned", !.result = [ZeroResult EXCEPT !.Error = msg]]
Pass(r, next) == [r EXCEPT !.stage = next, !.passed = Append(@, r.stage)]

\* module, err := wasmtime.NewModule(s.engine, wasmBytes)
ExCompile ==
    /\ run.stage = "compile"
    /\ run' = IF Compiles(sbx.engine, run.bytes) THEN Pass(run, "wasi")
              ELSE Fail(run, "WASM compilation failed")
    /\ UNCHANGED outsideRun /\ UNCHANGED sandbox

\* store.SetWasi(wasiConfig); err = linker.DefineWasi()
ExWasi ==
    /\ run.stage = "wasi"
    /\ \/ run' = Pass(run, "instantiate")
       \/ run' = Fail(run, "WASI setup failed")
    /\ UNCHANGED outsideRun /\ UNCHANGED sandbox

\* instance, err := linker.Instantiate(store, module): the instance gets the
\* memory the module declares; no limit is put on the store.
ExInstantiate ==
    /\ run.stage = "instantiate"
    /\ \/ \E p \in GuestPages : run' = [Pass(run, "getfunc") EXCEPT !.pages = p]
       \/ run' = Fail(run, "WASM instantiation failed")
    /\ UNCHANGED outsideRun /\ UNCHANGED sandbox

\* fn := instance.GetFunc(store, funcName)
ExGetFunc ==
    /\ run.stage = "getfunc"
    /\ run' = IF ExportsFunc(run.bytes, "main") THEN Pass(run, "call")
              ELSE Fail(run, "Function 'main' not found in WASM module")
    /\ UNCHANGED outsideRun /\ UNCHANGED sandbox

\* go func() { ...; returnValue, execErr = fn.Call(store, wasmArgs...) }()
ExGo ==
    /\ run.stage = "call"
    /\ run' = [Pass(run, "go") EXCEPT !.guest = "running"]
    /\ sandbox' = [sandbox EXCEPT !.started = TRUE]
    /\ UNCHANGED outsideRun

\* The guest goroutine ends: close(done).  A caller parked in the select is
\* woken on the done case.
Finish(r, how, value, trap) ==
    [r EXCEPT !.guest = how, !.value = value, !.trap = trap, !.inBudget = (r.t < r.budget),
              !.order = Append(@, "done"),
              !.taken = IF r.stage = "parked" THEN "done" ELSE @,
              !.stage = IF r.stage = "parked" THEN "usage" ELSE @]

GuestRuns == run.guest = "running" /\ run.stage \in WaitStages \cup {"returned"}

\* The entry point returns, with or without a value.
GuestReturn ==
    /\ GuestRuns
    /\ \E v \in ReturnValues : run' = Finish(run, "returned", v, "none")
    /\ UNCHANGED outsideRun /\ UNCHANGED sandbox

\* The guest traps for a reason other than fuel.
GuestTrap ==
    /\ GuestRuns
    /\ \E m \in OtherTraps : run' = Finish(run, "trapped", "nil", m)
    /\ UNCHANGED outsideRun /\ UNCHANGED sandbox

\* The guest computes: fuel is consumed from the store.
GuestWork ==
    /\ GuestRuns
    /\ run.consumed < run.fuelLimit
    /\ run' = [run EXCEPT !.consumed = Min(run.fuelLimit, @ + FuelStep)]
    /\ UNCHANGED outsideRun /\ UNCHANGED sandbox

\* The guest needs fuel and none is left: the engine traps it.
GuestOutOfFuel ==
    /\ GuestRuns
    /\ run.consumed = run.fuelLimit
    /\ run' = Finish(run, "trapped", "nil", FuelTrap)
    /\ UNCHANGED outsideRun /\ UNCHANGED sandbox

\* memory.grow
GuestGrow ==
    /\ GuestRuns
    /\ \E p \in GuestPages : p > run.pages /\ run' = [run EXCEPT !.pages = p]
    /\ UNCHANGED outsideRun /\ UNCHANGED sandbox

\* The timer of execCtx fires: execCtx.Done() is closed.  A caller parked in
\* the select is woken on the timeout case.
DeadlineFire ==
    /\ run.stage \in SetupStages \cup WaitStages
    /\ ~run.expired
    /\ run.t >= run.deadline
    /\ run' = [run EXCEPT !.expired = TRUE,
                          !.order = Append(@, "deadline"),
                          !.taken = IF run.stage = "parked" THEN "timeout" ELSE @,
                          !.stage = IF run.stage = "parked" THEN "usage" ELSE @]
    /\ UNCHANGED outsideRun /\ UNCHANGED sandbox

\* Wall-clock time passes: during the call up to the deadline, at which the
\* timer fires; past the deadline it is followed for as long as the guest
\* goroutine is still running and the caller's budget has not run out.
ClockTick ==
    /\ \/ run.stage \in SetupStages \cup WaitStages /\ run.t < run.deadline
       \/ /\ run.guest = "running"
          /\ run.expired \/ run.stage = "returned"
          /\ run.t < run.budget
    /\ run.t < TimeCap
    /\ run' = [run EXCEPT !.t = Min(TimeCap, @ + TimeStep)]
    /\ UNCHANGED outsideRun /\ UNCHANGED sandbox

\* select { case <-execCtx.Done(): ... case <-done: ... }: with no case ready
\* the caller parks; with both ready either is taken.
ExSelect ==
    /\ run.stage = "go"
    /\ LET ready == (IF run.expired THEN {"timeout"} ELSE {}) \cup
                    (IF run.guest \in {"returned", "trapped"} THEN {"done"} ELSE {})
       IN  IF ready = {} THEN run' = [run EXCEPT !.stage = "parked"]
           ELSE \E c \in ready : run' = [run EXCEPT !.taken = c, !.stage = "usage"]
    /\ UNCHANGED outsideRun /\ UNCHANGED sandbox

\* What store.FuelConsumed() may hand back: the store's count, or, read while
\* the guest goroutine is still using the store, any count.
FuelReadings(r) ==
    IF r.guest = "running"
    THEN {Min(r.fuelLimit, k * FuelStep) : k \in 0..((r.fuelLimit \div FuelStep) + 1)}
    ELSE {r.consumed}

\* The body of the taken select case, then the resource usage, then return.
ExUsage ==
    /\ run.stage = "usage"
    /\ \E fuelConsumed \in FuelReadings(run) :
          LET outcome ==
                  IF run.taken = "timeout"
                  THEN [ZeroResult EXCEPT !.Error = "Execution timed out"]
                  ELSE IF run.guest = "trapped"
                  THEN [ZeroResult EXCEPT !.Error = ExecutionError(run.trap)]
                  ELSE [ZeroResult EXCEPT !.Success = TRUE, !.Output = SuccessOutput(run.value)]
          IN  run' = [run EXCEPT !.stage = "returned",
                                 !.result = [outcome EXCEPT !.FuelUsed = FuelUsed(run.fuelLimit, fuelConsumed)]]
    /\ UNCHANGED outsideRun /\ UNCHANGED sandbox

(***************************************************************************)
(* The Sandbox on its own: any caller, VerifyWASM and Execute in any       *)
(* order, on any of the bodies, with any time left on the caller's context.*)
(***************************************************************************)
CtxBudgets == {0, 15, 60}

CallVerifyWASM ==
    \E bytes \in SandboxBodies :
        /\ vret' = [called |-> TRUE, bytes |-> bytes,
                    err |-> VerifyWASM(sbx, bytes).err, compiled |-> VerifyWASM(sbx, bytes).compiled]
        /\ UNCHANGED <<sbx, run, elapsed, sandbox, fs>>
        /\ UNCHANGED mgrVars /\ UNCHANGED loopVars /\ UNCHANGED jobVars
        /\ UNCHANGED sigChan /\ UNCHANGED <<updVars, wd, rj>>

CallExecute ==
    /\ run.stage \in {"idle", "returned"}
    /\ \E bytes \in SandboxBodies, ctxLeft \in CtxBudgets : run' = StartRun(bytes, ctxLeft)
    /\ UNCHANGED outsideRun /\ UNCHANGED sandbox

InitSandbox ==
    /\ InitManager /\ InitLoop /\ InitExec /\ IdleRunner /\ fs = EmptyDir
    /\ IdleUpdater
    /\ userPreference = "balanced" /\ numCPU = LaptopMaxCores
    /\ sbx \in {NewSandbox(SandboxConfigFor(cpu)) : cpu \in {0, LowResourceCPU}}

NextSandbox ==
    \/ CallVerifyWASM
    \/ CallExecute
    \/ ExCompile
    \/ ExWasi
    \/ ExInstantiate
    \/ ExGetFunc
    \/ ExGo
    \/ ExSelect
    \/ ExUsage
    \/ GuestReturn
    \/ GuestTrap
    \/ GuestWork
    \/ GuestOutOfFuel
    \/ GuestGrow
    \/ DeadlineFire
    \/ ClockTick

SpecSandbox == InitSandbox /\ [][NextSandbox]_vars

(***************************************************************************)
(* The agent: the scheduler loop of main() with the JobExecutor it drives. *)
(* The loop is one goroutine; pc is where it stands.                       *)
(***************************************************************************)
\* Idle times the loop's probes sample (activity levels 0, 50, 96 and 100).
LoopIdleSecs == {0, 150, 288, 301}
LoopProbes ==
    IF CacheFresh THEN {ProbeFail}
    ELSE {ProbeFail} \cup {[ok |-> TRUE, level |-> GetActivityLevel(s)] : s \in LoopIdleSecs}

DownloadPcs == {"dl_get", "dl_create", "dl_copy", "dl_verify", "dl_rename", "dl_defer"}
ExecutePcs == DownloadPcs \cup {"ej_admit", "ej_dl_ret", "ej_verify", "ej_execute", "ex_wait",
                                "ej_cleanup", "job_done"}

mgrUnchanged == UNCHANGED <<userPreference, sinceLastCheck, currentCPULimit, currentMemLimit, numCPU, ret>>

\* Wall-clock time passes while the loop waits or a step is in progress: enough
\* of it for the 5-second cache to expire (shorter waits leave the cache fresh,
\* which is the state the loop is already in).
Wait ==
    /\ pc # "exited"
    /\ sinceLastCheck < CacheSeconds
    /\ sinceLastCheck' = CacheSeconds
    /\ ret' = NoCall
    /\ UNCHANGED <<userPreference, currentCPULimit, currentMemLimit, numCPU>>
    /\ UNCHANGED loopVars /\ UNCHANGED execVars /\ UNCHANGED fs
    /\ UNCHANGED sigChan /\ UNCHANGED <<updVars, wd, rj>>

\* SIGINT or SIGTERM is delivered: signal.Notify puts it into sigChan, which
\* holds one signal; the loop learns of it only when it receives from sigChan.
SignalArrives ==
    /\ pc # "exited"
    /\ ~sigChan.pending /\ ~ctxCancelled
    /\ sigChan' = [pending |-> TRUE, inJob |-> pc \in ExecutePcs]
    /\ UNCHANGED <<pc, ctxCancelled, tick, fs>> /\ UNCHANGED execVars /\ mgrUnchanged
    /\ UNCHANGED <<updVars, wd, rj>>

\* case <-sigChan: cancel()
Signal_NoCancel ==
    /\ pc = "select"
    /\ sigChan.pending
    /\ sigChan' = NoSignal
    /\ UNCHANGED <<pc, ctxCancelled, tick, fs>> /\ UNCHANGED execVars /\ mgrUnchanged
    /\ UNCHANGED <<updVars, wd, rj>>

Signal ==
    /\ pc = "select"
    /\ sigChan.pending
    /\ sigChan' = NoSignal
    /\ ctxCancelled' = TRUE
    /\ UNCHANGED <<pc, tick, fs>> /\ UNCHANGED execVars /\ mgrUnchanged
    /\ UNCHANGED <<updVars, wd, rj>>

\* case <-ctx.Done(): return
CtxDone ==
    /\ pc = "select"
    /\ ctxCancelled
    /\ pc' = "exited"
    /\ UNCHANGED <<ctxCancelled, tick, fs>> /\ UNCHANGED execVars /\ mgrUnchanged
    /\ UNCHANGED sigChan /\ UNCHANGED <<updVars, wd, rj>>

\* case <-heartbeatTicker.C: apiClient.Beat
\* (the outcome is only printed)
HeartbeatTick ==
    /\ pc = "select"
    /\ UNCHANGED vars

\* case <-jobTicker.C: a new ShouldRunJob call decides this tick; "continue" when false.
JobTick_Overlapping ==
    /\ pc \in {"select"} \cup DownloadPcs
    /\ CallManager("ShouldRunJob", LoopProbes)
    /\ tick' = [decided |-> TRUE, run |-> ret'.run, cpu |-> ret'.cpu]
    /\ pc' = IF ret'.run THEN "poll" ELSE "select"
    /\ UNCHANGED <<ctxCancelled, fs>> /\ UNCHANGED execVars
    /\ UNCHANGED sigChan /\ UNCHANGED <<updVars, wd, rj>>

JobTick ==
    /\ pc = "select"
    /\ CallManager("ShouldRunJob", LoopProbes)
    /\ tick' = [decided |-> TRUE, run |-> ret'.run, cpu |-> ret'.cpu]
    /\ pc' = IF ret'.run THEN "poll" ELSE "select"
    /\ UNCHANGED <<ctxCancelled, fs>> /\ UNCHANGED execVars
    /\ UNCHANGED sigChan /\ UNCHANGED <<updVars, wd, rj>>

\* apiClient.GetNextJob(pollCtx): an error (the only outcome once ctx is
\* cancelled), no work, or a job with its declared digest.
Poll ==
    /\ pc = "poll"
    /\ \/ /\ pc' = "select"
          /\ tick' = NoTick
          /\ UNCHANGED job
       \/ \E d \in Declared, m \in JobBudgets :
            /\ ~ctxCancelled
            /\ job' = [sha256 |-> d, maxSeconds |-> m]
            /\ pc' = "ej_admit"
            /\ UNCHANGED tick
    /\ UNCHANGED <<ctxCancelled, fs, resp, pre, offset, hasher, actualSHA256, dlErr, wasmBytes,
                   sandbox, result>>
    /\ UNCHANGED sbVars
    /\ mgrUnchanged
    /\ UNCHANGED sigChan /\ UNCHANGED <<updVars, wd, rj>>

\* ExecuteJob up to the download: admission check, then MkdirAll of the job directory.
EjAdmit_MkdirFirst ==
    /\ pc = "ej_admit"
    /\ CallManager("ShouldRunJob", LoopProbes)
    /\ \/ /\ ~ret'.run
          /\ result' = [kind |-> "error", error |-> "system too active to run jobs"]
          /\ pc' = "job_done"
          /\ fs' = MkdirAll(fs)
          /\ UNCHANGED pre
       \/ /\ ret'.run
          /\ fs' = MkdirAll(fs)
          /\ pre' = MkdirAll(fs)
          /\ pc' = "dl_get"
          /\ UNCHANGED result
    /\ UNCHANGED <<ctxCancelled, tick, job, resp, offset, hasher, actualSHA256, dlErr,
                   wasmBytes, sandbox>>
    /\ UNCHANGED sbVars
    /\ UNCHANGED sigChan /\ UNCHANGED <<updVars, wd, rj>>

EjAdmit ==
    /\ pc = "ej_admit"
    /\ CallManager("ShouldRunJob", LoopProbes)
    /\ \/ /\ ~ret'.run
          /\ result' = [kind |-> "error", error |-> "system too active to run jobs"]
          /\ pc' = "job_done"
          /\ UNCHANGED <<fs, pre>>
       \/ /\ ret'.run
          /\ result' = [kind |-> "error", error |-> "failed to create job directory"]
          /\ pc' = "job_done"
          /\ UNCHANGED <<fs, pre>>
       \/ /\ ret'.run
          /\ fs' = MkdirAll(fs)
          /\ pre' = MkdirAll(fs)
          /\ pc' = "dl_get"
          /\ UNCHANGED result
    /\ UNCHANGED <<ctxCancelled, tick, job, resp, offset, hasher, actualSHA256, dlErr,
                   wasmBytes, sandbox>>
    /\ UNCHANGED sbVars
    /\ UNCHANGED sigChan /\ UNCHANGED <<updVars, wd, rj>>

\* downloadAndVerify: http.Get and the status check.
DlGet ==
    /\ pc = "dl_get"
    /\ \/ /\ dlErr' = [kind |-> "get"]
          /\ pc' = "ej_dl_ret"
          /\ UNCHANGED resp
       \/ \E st \in Statuses, body \in Bodies :
            /\ resp' = [status |-> st, body |-> body]
            /\ IF StatusOK(st)
               THEN pc' = "dl_create" /\ UNCHANGED dlErr
               ELSE pc' = "ej_dl_ret" /\ dlErr' = [kind |-> "status", code |-> st]
    /\ UNCHANGED <<ctxCancelled, tick, job, fs, pre, offset, hasher, actualSHA256,
                   wasmBytes, sandbox, result>>
    /\ UNCHANGED sbVars
    /\ mgrUnchanged
    /\ UNCHANGED sigChan /\ UNCHANGED <<updVars, wd, rj>>

\* os.Create(tempPath); on success the removal of tempPath is deferred.
DlCreate ==
    /\ pc = "dl_create"
    /\ \/ /\ dlErr' = [kind |-> "create"]
          /\ pc' = "ej_dl_ret"
          /\ UNCHANGED <<fs, offset, hasher>>
       \/ /\ fs' = Create(fs, TempPath(ArtifactPath))
          /\ offset' = 0
          /\ hasher' = HashNew
          /\ pc' = "dl_copy"
          /\ UNCHANGED dlErr
    /\ UNCHANGED <<ctxCancelled, tick, job, resp, pre, actualSHA256, wasmBytes,
                   sandbox, result>>
    /\ UNCHANGED sbVars
    /\ mgrUnchanged
    /\ UNCHANGED sigChan /\ UNCHANGED <<updVars, wd, rj>>

\* io.Copy(io.MultiWriter(tempFile, hasher), resp.Body): one chunk, the end of
\* the body, or a read/write error; tempFile.Close() follows either way.
DlCopy ==
    /\ pc = "dl_copy"
    /\ \/ /\ offset < Len(resp.body)
          /\ LET n == Min(ChunkLen, Len(resp.body) - offset)
                 chunk == SubSeq(resp.body, offset + 1, offset + n)
             IN  /\ fs' = WriteFile(fs, TempPath(ArtifactPath), chunk)
                 /\ hasher' = HashWrite(hasher, chunk)
                 /\ offset' = offset + n
          /\ UNCHANGED <<pc, dlErr>>
       \/ /\ offset = Len(resp.body)
          /\ pc' = "dl_verify"
          /\ UNCHANGED <<fs, hasher, offset, dlErr>>
       \/ /\ dlErr' = [kind |-> "copy"]
          /\ pc' = "dl_defer"
          /\ UNCHANGED <<fs, hasher, offset>>
    /\ UNCHANGED <<ctxCancelled, tick, job, resp, pre, actualSHA256, wasmBytes,
                   sandbox, result>>
    /\ UNCHANGED sbVars
    /\ mgrUnchanged
    /\ UNCHANGED sigChan /\ UNCHANGED <<updVars, wd, rj>>

\* actualSHA256 := hex.EncodeToString(hasher.Sum(nil)), compared with the expected digest.
DlVerify ==
    /\ pc = "dl_verify"
    /\ actualSHA256' = HexEncodeToString(hasher)
    /\ IF ChecksumMatches(actualSHA256', job.sha256)
       THEN pc' = "dl_rename" /\ UNCHANGED dlErr
       ELSE /\ pc' = "dl_defer"
            /\ dlErr' = [kind |-> "checksum", expected |-> job.sha256, actual |-> actualSHA256']
    /\ UNCHANGED <<ctxCancelled, tick, job, resp, fs, pre, offset, hasher, wasmBytes,
                   sandbox, result>>
    /\ UNCHANGED sbVars
    /\ mgrUnchanged
    /\ UNCHANGED sigChan /\ UNCHANGED <<updVars, wd, rj>>

\* os.Rename(tempPath, destPath)
DlRename ==
    /\ pc = "dl_rename"
    /\ \/ /\ fs' = Rename(fs, TempPath(ArtifactPath), ArtifactPath)
          /\ dlErr' = NilErr
       \/ /\ dlErr' = [kind |-> "rename"]
          /\ UNCHANGED fs
    /\ pc' = "dl_defer"
    /\ UNCHANGED <<ctxCancelled, tick, job, resp, pre, offset, hasher, actualSHA256,
                   wasmBytes, sandbox, result>>
    /\ UNCHANGED sbVars
    /\ mgrUnchanged
    /\ UNCHANGED sigChan /\ UNCHANGED <<updVars, wd, rj>>

\* The deferred os.Remove(tempPath) runs and downloadAndVerify returns.
DlDefer ==
    /\ pc = "dl_defer"
    /\ fs' = Remove(fs, TempPath(ArtifactPath))
    /\ pc' = "ej_dl_ret"
    /\ UNCHANGED <<ctxCancelled, tick, job, resp, pre, offset, hasher, actualSHA256,
                   dlErr, wasmBytes, sandbox, result>>
    /\ UNCHANGED sbVars
    /\ mgrUnchanged
    /\ UNCHANGED sigChan /\ UNCHANGED <<updVars, wd, rj>>

\* result.Error = ...; return result, nil: the failure travels in the JobResult
\* (Success stays false), the error value is nil.
FailureResult_Propagated(msg) == [kind |-> "error", error |-> msg]

FailureResult(msg) == [kind |-> "result", success |-> FALSE, output |-> "", error |-> msg]

\* ExecuteJob after downloadAndVerify: a download error ends the job; otherwise
\* the artifact is read back with os.ReadFile.
EjAfterDownload ==
    /\ pc = "ej_dl_ret"
    /\ IF dlErr # NilErr
       THEN /\ result' = FailureResult("Failed to download artifact")
            /\ pc' = "ej_cleanup"
            /\ UNCHANGED wasmBytes
       ELSE \/ /\ fs.files[ArtifactPath].exists
               /\ wasmBytes' = fs.files[ArtifactPath].data
               /\ pc' = "ej_verify"
               /\ UNCHANGED result
            \/ /\ result' = FailureResult("Failed to read WASM file")
               /\ pc' = "ej_cleanup"
               /\ UNCHANGED wasmBytes
    /\ UNCHANGED <<ctxCancelled, tick, job, resp, fs, pre, offset, hasher, actualSHA256,
                   dlErr, sandbox>>
    /\ UNCHANGED sbVars
    /\ mgrUnchanged
    /\ UNCHANGED sigChan /\ UNCHANGED <<updVars, wd, rj>>

\* e.sandbox.VerifyWASM(wasmBytes): structural checks, then a trial compilation.
EjVerify ==
    /\ pc = "ej_verify"
    /\ sandbox' = [sandbox EXCEPT !.verified = TRUE]
    /\ IF VerifyWASM(sbx, wasmBytes).err = "nil"
       THEN /\ pc' = "ej_execute"
            /\ UNCHANGED result
       ELSE /\ result' = FailureResult("WASM verification failed")
            /\ pc' = "ej_cleanup"
    /\ UNCHANGED <<ctxCancelled, tick, job, resp, fs, pre, offset, hasher, actualSHA256,
                   dlErr, wasmBytes>>
    /\ UNCHANGED sbVars
    /\ mgrUnchanged
    /\ UNCHANGED sigChan /\ UNCHANGED <<updVars, wd, rj>>

\* timeout := min(timeoutSeconds, maxTimeout)
JobTimeout(timeoutSeconds) == Min(timeoutSeconds, MaxTimeout)

\* What jobCtx has left when Execute is entered: jobCtx is the caller's
\* context (MaxSeconds from the call of ExecuteJob) with JobTimeout from now.
JobCtxLeft(j, spent) == Max(0, Min(JobTimeout(j.maxSeconds), j.maxSeconds - spent))

\* jobCtx, GetLimits, GetCoreCount and the call of e.sandbox.Execute.
EjExecute ==
    /\ pc = "ej_execute"
    /\ CallManager("GetCoreCount", LoopProbes)
    /\ run' = StartRun(wasmBytes, JobCtxLeft(job, elapsed))
    /\ pc' = "ex_wait"
    /\ UNCHANGED <<ctxCancelled, tick, job, resp, fs, pre, offset, hasher, actualSHA256,
                   dlErr, wasmBytes, sandbox, result, elapsed, sbx, vret>>
    /\ UNCHANGED sigChan /\ UNCHANGED <<updVars, wd, rj>>

\* Execute has returned: its result becomes the JobResult.
EjExecuteRet ==
    /\ pc = "ex_wait"
    /\ run.stage = "returned"
    /\ result' = [kind |-> "result", success |-> run.result.Success,
                  output |-> (IF run.result.Success THEN run.result.Output ELSE ""),
                  error |-> (IF run.result.Success THEN "" ELSE run.result.Error)]
    /\ run' = NoRun
    /\ pc' = "ej_cleanup"
    /\ UNCHANGED <<ctxCancelled, tick, job, resp, fs, pre, offset, hasher, actualSHA256,
                   dlErr, wasmBytes, sandbox, elapsed, sbx, vret>>
    /\ mgrUnchanged
    /\ UNCHANGED sigChan /\ UNCHANGED <<updVars, wd, rj>>

\* The artifact server is slow: time passes in http.Get or in io.Copy with
\* nothing arriving.  http.Get is called without a context.
DlStall ==
    /\ pc \in {"dl_get", "dl_copy"}
    /\ elapsed < TimeCap
    /\ elapsed' = Min(TimeCap, elapsed + TimeStep)
    /\ UNCHANGED <<sbx, run, vret, fs, sandbox>>
    /\ UNCHANGED jobVars /\ UNCHANGED loopVars /\ mgrUnchanged
    /\ UNCHANGED sigChan /\ UNCHANGED <<updVars, wd, rj>>

\* The deferred os.RemoveAll(jobDir) runs and ExecuteJob returns to the loop.
EjCleanup ==
    /\ pc = "ej_cleanup"
    /\ fs' = RemoveAll(fs)
    /\ pc' = "job_done"
    /\ UNCHANGED <<ctxCancelled, tick>> /\ UNCHANGED execVars /\ mgrUnchanged
    /\ UNCHANGED sigChan /\ UNCHANGED <<updVars, wd, rj>>

\* Back in main(): execCancel(), the outcome is printed, and the loop selects
\* again; the job and every local of ExecuteJob are gone.
JobDone ==
    /\ pc = "job_done"
    /\ pc' = "select"
    /\ tick' = NoTick
    /\ job' = NoJob
    /\ resp' = NoResp
    /\ pre' = EmptyDir
    /\ offset' = 0
    /\ hasher' = HashNew
    /\ actualSHA256' = <<>>
    /\ dlErr' = NoErr
    /\ wasmBytes' = <<>>
    /\ sandbox' = IdleSandbox
    /\ result' = NoResult
    /\ elapsed' = 0
    /\ UNCHANGED <<ctxCancelled, fs, sbx, run, vret>> /\ mgrUnchanged
    /\ UNCHANGED sigChan /\ UNCHANGED <<updVars, wd, rj>>

\* case <-cleanupTicker.C: CleanupWorkDir removes job directories older than 24 hours.
CleanupTick ==
    /\ pc = "select"
    /\ \E old \in BOOLEAN : fs' = IF fs.dir /\ old THEN RemoveAll(fs) ELSE fs
    /\ UNCHANGED loopVars /\ UNCHANGED execVars /\ mgrUnchanged
    /\ UNCHANGED sigChan /\ UNCHANGED <<updVars, wd, rj>>

\* case <-statusTicker.C: prints the limits of a GetLimits call.
StatusTick ==
    /\ pc = "select"
    /\ CallManager("GetLimits", LoopProbes)
    /\ UNCHANGED loopVars /\ UNCHANGED execVars /\ UNCHANGED fs
    /\ UNCHANGED sigChan /\ UNCHANGED <<updVars, wd, rj>>

\* The modes the agent is run in here: one that never denies work after a
\* probe and the one that does.
LoopModes == {"", "idle-only"}

Init ==
    /\ userPreference \in {NewManager(p) : p \in LoopModes}
    /\ numCPU = LaptopMaxCores
    /\ sinceLastCheck = 0
    /\ currentCPULimit = 0
    /\ currentMemLimit = 0
    /\ ret = NoCall
    /\ InitLoop
    /\ InitExec
    /\ IdleRunner
    /\ IdleUpdater
    /\ fs \in {EmptyDir, StaleDir}
    \* NewExecutor follows NewManager within the cache window: GetLimits gives 0
    /\ sbx = NewSandbox(SandboxConfigFor(currentCPULimit))

Next ==
    \/ Wait
    \/ SignalArrives
    \/ Signal
    \/ CtxDone
    \/ HeartbeatTick
    \/ JobTick
    \/ Poll
    \/ EjAdmit
    \/ DlGet
    \/ DlCreate
    \/ DlCopy
    \/ DlVerify
    \/ DlRename
    \/ DlDefer
    \/ EjAfterDownload
    \/ EjVerify
    \/ EjExecute
    \/ ExCompile
    \/ ExWasi
    \/ ExInstantiate
    \/ ExGetFunc
    \/ ExGo
    \/ ExSelect
    \/ ExUsage
    \/ GuestReturn
    \/ GuestTrap
    \/ GuestWork
    \/ GuestOutOfFuel
    \/ GuestGrow
    \/ DeadlineFire
    \/ ClockTick
    \/ EjExecuteRet
    \/ DlStall
    \/ EjCleanup
    \/ JobDone
    \/ CleanupTick
    \/ StatusTick

Spec == Init /\ [][Next]_vars

\* The loop under the scheduling Go gives it: a select with several ready
\* cases takes each of them again and again (the choice is uniformly random),
\* and the poll, a request with a 5-second context, comes back.
FairSpec == Spec /\ SF_vars(CtxDone) /\ WF_vars(Poll)

(***************************************************************************)
(* The updater on its own: UpdateManager.CheckAndUpdate step by step, with *)
(* the release feed, the download server and the file system answering in  *)
(* any way they can.  upd.err is what the call returned ("running" while   *)
(* it has not), upd.failedAt the step at which the update was given up.    *)
(***************************************************************************)
agentUnchanged == UNCHANGED <<mgrVars, loopVars, execVars, fs, sigChan, wd, rj>>

\* return fmt.Errorf("<what>: %w", err)
GiveUp(u, step, what) == [u EXCEPT !.failedAt = step, !.err = what]

\* um.CheckAndUpdate(autoApply) is called.
CallCheckAndUpdate ==
    /\ upc = "idle"
    /\ \E autoApply \in BOOLEAN : upd' = [NoUpd EXCEPT !.autoApply = autoApply, !.pre = ufs]
    /\ upc' = "check"
    /\ UNCHANGED <<currentVersion, ufs>> /\ agentUnchanged

\* vc.CheckForUpdate(): a failed request, status or decoding, or a release with
\* its tag; then the returns for "no update" and for autoApply false.
UmCheck ==
    /\ upc = "check"
    /\ \/ /\ upd' = GiveUp(upd, "check", "failed to check for updates")
          /\ upc' = "returned"
       \/ \E tagName \in ReleaseTags :
            LET hasUpdate == IsNewer(tagName, currentVersion)
                goOn == hasUpdate /\ upd.autoApply
            IN  /\ upd' = [upd EXCEPT !.checked = TRUE, !.tagName = tagName,
                                      !.hasUpdate = hasUpdate,
                                      !.err = IF goOn THEN @ ELSE "nil"]
                /\ upc' = IF goOn THEN "du_asset" ELSE "returned"
    /\ UNCHANGED <<currentVersion, ufs>> /\ agentUnchanged

\* DownloadUpdate: the search of release.Assets for this platform's asset name.
DuAsset ==
    /\ upc = "du_asset"
    /\ \E assets \in ReleaseAssets :
          IF FindAsset(assets, AssetName)
          THEN /\ upd' = [upd EXCEPT !.assets = assets]
               /\ upc' = "du_get"
          ELSE /\ upd' = [GiveUp(upd, "asset", "failed to download update") EXCEPT !.assets = assets]
               /\ upc' = "returned"
    /\ UNCHANGED <<currentVersion, ufs>> /\ agentUnchanged

\* resp, err := d.httpClient.Get(downloadURL); the status is not looked at.
DuGet ==
    /\ upc = "du_get"
    /\ \/ /\ upd' = GiveUp(upd, "get", "failed to download update")
          /\ upc' = "returned"
       \/ \E r \in UpdateResponses :
            /\ upd' = [upd EXCEPT !.resp = r]
            /\ upc' = "du_create"
    /\ UNCHANGED <<currentVersion, ufs>> /\ agentUnchanged

\* out, err := os.Create(tempFile)
DuCreate ==
    /\ upc = "du_create"
    /\ \/ /\ upd' = GiveUp(upd, "create", "failed to download update")
          /\ upc' = "returned"
          /\ UNCHANGED ufs
       \/ /\ ufs' = Create(ufs, UpdatePath)
          /\ upd' = [upd EXCEPT !.off = 0]
          /\ upc' = "du_copy"
    /\ UNCHANGED currentVersion /\ agentUnchanged

\* io.Copy(out, resp.Body): one chunk, the end of the body (DownloadUpdate
\* returns the temp path and ApplyUpdate is called), or a read/write error.
DuCopy ==
    /\ upc = "du_copy"
    /\ \/ /\ upd.off < Len(upd.resp.body)
          /\ LET n == Min(ChunkLen, Len(upd.resp.body) - upd.off)
                 chunk == SubSeq(upd.resp.body, upd.off + 1, upd.off + n)
             IN  /\ ufs' = WriteFile(ufs, UpdatePath, chunk)
                 /\ upd' = [upd EXCEPT !.off = @ + n]
          /\ UNCHANGED upc
       \/ /\ upd.off = Len(upd.resp.body)
          /\ upc' = "bk_open"
          /\ UNCHANGED <<ufs, upd>>
       \/ /\ upd' = GiveUp(upd, "copy", "failed to download update")
          /\ upc' = "returned"
          /\ UNCHANGED ufs
    /\ UNCHANGED currentVersion /\ agentUnchanged

\* A step of ApplyUpdate failed: CheckAndUpdate goes on to Rollback.
ApplyFails(step) ==
    /\ upd' = [upd EXCEPT !.failedAt = step]
    /\ upc' = "rollback"

\* createBackup: source, err := os.Open(su.currentExePath)
BkOpen ==
    /\ upc = "bk_open"
    /\ \/ ApplyFails("backup_open")
       \/ upc' = "bk_create" /\ UNCHANGED upd
    /\ UNCHANGED <<currentVersion, ufs>> /\ agentUnchanged

\* createBackup: backup, err := os.Create(su.backupPath)
BkCreate ==
    /\ upc = "bk_create"
    /\ \/ ApplyFails("backup_create") /\ UNCHANGED ufs
       \/ /\ ufs' = Create(ufs, BackupPath(ExePath))
          /\ upd' = [upd EXCEPT !.off = 0]
          /\ upc' = "bk_copy"
    /\ UNCHANGED currentVersion /\ agentUnchanged

\* createBackup: io.Copy(backup, source), one chunk at a time.
BkCopy ==
    /\ upc = "bk_copy"
    /\ LET exe == ufs.files[ExePath].data
       IN  \/ /\ upd.off < Len(exe)
              /\ LET n == Min(ChunkLen, Len(exe) - upd.off)
                 IN  /\ ufs' = WriteFile(ufs, BackupPath(ExePath),
                                         SubSeq(exe, upd.off + 1, upd.off + n))
                     /\ upd' = [upd EXCEPT !.off = @ + n]
              /\ UNCHANGED upc
           \/ /\ upd.off = Len(exe)
              /\ upc' = "ap_stat"
              /\ UNCHANGED <<ufs, upd>>
           \/ ApplyFails("backup_copy") /\ UNCHANGED ufs
    /\ UNCHANGED currentVersion /\ agentUnchanged

\* applyUpdateUnix: currentInfo, err := os.Stat(su.currentExePath)
ApStat ==
    /\ upc = "ap_stat"
    /\ \/ ApplyFails("stat")
       \/ upc' = "ap_chmod" /\ UNCHANGED upd
    /\ UNCHANGED <<currentVersion, ufs>> /\ agentUnchanged

\* applyUpdateUnix: os.Chmod(newExePath, currentInfo.Mode())
ApChmod ==
    /\ upc = "ap_chmod"
    /\ \/ ApplyFails("chmod")
       \/ upc' = "ap_rename" /\ UNCHANGED upd
    /\ UNCHANGED <<currentVersion, ufs>> /\ agentUnchanged

\* applyUpdateUnix: os.Rename(newExePath, su.currentExePath)
ApRename ==
    /\ upc = "ap_rename"
    /\ \/ ApplyFails("rename") /\ UNCHANGED ufs
       \/ /\ ufs' = Rename(ufs, UpdatePath, ExePath)
          /\ upc' = "ap_exec"
          /\ UNCHANGED upd
    /\ UNCHANGED currentVersion /\ agentUnchanged

\* applyUpdateUnix: syscall.Exec(su.currentExePath, args, env).  When it
\* succeeds the process is the new binary and CheckAndUpdate never returns.
ApExec ==
    /\ upc = "ap_exec"
    /\ \/ ApplyFails("exec")
       \/ upc' = "relaunched" /\ UNCHANGED upd
    /\ UNCHANGED <<currentVersion, ufs>> /\ agentUnchanged

\* um.selfUpdater.Rollback() with its result dropped, then
\* return fmt.Errorf("failed to apply update: %w", err).
UmRollback ==
    /\ upc = "rollback"
    /\ \/ /\ ~ufs.files[BackupPath(ExePath)].exists
          /\ upd' = [upd EXCEPT !.rollback = "no backup found", !.err = "failed to apply update"]
          /\ UNCHANGED ufs
       \/ /\ ufs.files[BackupPath(ExePath)].exists
          /\ ufs' = Rollback(ufs)
          /\ upd' = [upd EXCEPT !.rollback = "nil", !.err = "failed to apply update"]
       \/ /\ ufs.files[BackupPath(ExePath)].exists
          /\ upd' = [upd EXCEPT !.rollback = "rename", !.err = "failed to apply update"]
          /\ UNCHANGED ufs
    /\ upc' = "returned"
    /\ UNCHANGED currentVersion /\ agentUnchanged

\* The caller has the error value of CheckAndUpdate; the call's locals are gone.
UmReturn ==
    /\ upc = "returned"
    /\ upc' = "idle"
    /\ upd' = NoUpd
    /\ UNCHANGED <<currentVersion, ufs>> /\ agentUnchanged

\* su.CleanupBackup(): os.Remove(su.backupPath), called between updates.
CallCleanupBackup ==
    /\ upc = "idle"
    /\ ufs.files[BackupPath(ExePath)].exists
    /\ ufs' = Remove(ufs, BackupPath(ExePath))
    /\ UNCHANGED <<currentVersion, upc, upd>> /\ agentUnchanged

\* d.CleanupTemp(): os.RemoveAll(d.tempDir), called between updates.
CallCleanupTemp ==
    /\ upc = "idle"
    /\ ufs.files[UpdatePath].exists
    /\ ufs' = Remove(ufs, UpdatePath)
    /\ UNCHANGED <<currentVersion, upc, upd>> /\ agentUnchanged

\* NewUpdateManager(currentVersion) on an installed agent, with or without
\* the backup of an earlier update beside the executable.
InitUpdater ==
    /\ InitManager /\ InitLoop /\ InitExec /\ IdleRunner /\ fs = EmptyDir
    /\ userPreference = "balanced" /\ numCPU = LaptopMaxCores
    /\ sbx = NewSandbox(DefaultSandboxConfig)
    /\ currentVersion \in CurrentVersions
    /\ upc = "idle"
    /\ ufs \in {Installed(Absent), Installed(File(OldBackup))}
    /\ upd = NoUpd

NextUpdater ==
    \/ CallCheckAndUpdate
    \/ UmCheck
    \/ DuAsset
    \/ DuGet
    \/ DuCreate
    \/ DuCopy
    \/ BkOpen
    \/ BkCreate
    \/ BkCopy
    \/ ApStat
    \/ ApChmod
    \/ ApRename
    \/ ApExec
    \/ UmRollback
    \/ UmReturn
    \/ CallCleanupBackup
    \/ CallCleanupTemp

SpecUpdater == InitUpdater /\ [][NextUpdater]_vars

(***************************************************************************)
(* The job directory of ExecuteJob on a real tree: Join, MkdirAll, and the *)
(* deferred RemoveAll, for any job id the server sends.                    *)
(***************************************************************************)
runnerUnchanged == UNCHANGED <<mgrVars, loopVars, execVars, fs, sigChan, updVars>>

\* NewExecutor at an agent start: os.MkdirAll(workDir, 0755)
WdNewExecutor ==
    /\ wd.pc = "idle"
    /\ wd' = [NoJobDir EXCEPT !.tree = MkdirAllAt(wd.tree, WorkDir)]
    /\ UNCHANGED rj /\ runnerUnchanged

\* jobDir := filepath.Join(e.workDir, jobID); os.MkdirAll(jobDir, 0755).  When
\* MkdirAll fails ExecuteJob returns before the removal is deferred.
WdMkdirAll ==
    /\ wd.pc = "idle"
    /\ \E jobID \in JobIDs, ok \in BOOLEAN :
          LET jobDir == Join(WorkDir, jobID)
          IN  wd' = IF ok
                    THEN [pc |-> "running", jobID |-> jobID, jobDir |-> jobDir,
                          tree |-> MkdirAllAt(wd.tree, jobDir), removed |-> FALSE]
                    ELSE [wd EXCEPT !.jobID = jobID, !.jobDir = jobDir, !.removed = FALSE]
    /\ UNCHANGED rj /\ runnerUnchanged

\* defer os.RemoveAll(jobDir), run when ExecuteJob returns
WdRemoveAll ==
    /\ wd.pc = "running"
    /\ wd' = [wd EXCEPT !.pc = "idle", !.tree = RemoveAllAt(wd.tree, wd.jobDir),
                        !.removed = TRUE]
    /\ UNCHANGED rj /\ runnerUnchanged

InitJobDir ==
    /\ InitManager /\ InitLoop /\ InitExec /\ fs = EmptyDir
    /\ userPreference = "balanced" /\ numCPU = LaptopMaxCores
    /\ sbx = NewSandbox(DefaultSandboxConfig)
    /\ IdleUpdater
    /\ rj = NoRunJob
    /\ wd \in {NoJobDir, [NoJobDir EXCEPT !.tree = MkdirAllAt(FreshTree, Join(WorkDir, <<"o", "l", "d">>))]}

NextJobDir ==
    \/ WdNewExecutor
    \/ WdMkdirAll
    \/ WdRemoveAll

SpecJobDir == InitJobDir /\ [][NextJobDir]_vars

(***************************************************************************)
(* One RunJob call after another.  The clock counts seconds since start;   *)
(* a select with a ready case is taken before the clock moves on.          *)
(***************************************************************************)
RunningPcs == {"sleep_select", "hash_loop"}

CallRunJob ==
    /\ rj.pc = "idle"
    /\ \E impl \in Runners, jobType \in JobTypes, seconds \in ArgSeconds,
          timeoutSec \in TimeoutSecs, parentDone \in BOOLEAN :
          LET d == Dispatch(jobType)
          IN  rj' = [impl |-> impl, jobType |-> jobType, dl |-> TimeBox(timeoutSec),
                     seconds |-> IF d = "sleep" THEN SecondsOr(seconds, DefaultSleepSeconds)
                                 ELSE IF d = "hash" THEN SecondsOr(seconds, DefaultHashSeconds)
                                 ELSE 0,
                     now |-> 0,
                     parentAt |-> IF parentDone THEN 0 ELSE -1,
                     status |-> IF d = "default" THEN "skipped"
                                ELSE IF impl = "RunJob" THEN "ok" ELSE "",
                     error |-> IF d = "default" THEN "unsupported job type" ELSE "",
                     timers |-> IF d = "sleep" THEN 1 ELSE 0,
                     hashes |-> 0,
                     pc |-> IF d = "sleep" THEN "sleep_select"
                            ELSE IF d = "hash" THEN "hash_loop" ELSE "returned"]
    /\ UNCHANGED wd /\ runnerUnchanged

\* The parent context is cancelled while the job runs.
RjParentCancel ==
    /\ rj.pc \in RunningPcs
    /\ rj.parentAt < 0
    /\ rj' = [rj EXCEPT !.parentAt = rj.now]
    /\ UNCHANGED wd /\ runnerUnchanged

\* Parked in the select of "sleep": neither case is ready, a second passes.
RjSleepWait ==
    /\ rj.pc = "sleep_select"
    /\ ~TimeBoxDone(rj) /\ rj.now < rj.seconds
    /\ rj' = [rj EXCEPT !.now = @ + 1]
    /\ UNCHANGED wd /\ runnerUnchanged

\* case <-ctx.Done()
RjSleepDone ==
    /\ rj.pc = "sleep_select"
    /\ TimeBoxDone(rj)
    /\ rj' = [rj EXCEPT !.pc = "returned", !.status = "error", !.error = "timeout/cancelled"]
    /\ UNCHANGED wd /\ runnerUnchanged

\* case <-t.C
RjSleepTimer ==
    /\ rj.pc = "sleep_select"
    /\ rj.now >= rj.seconds
    /\ rj' = [rj EXCEPT !.pc = "returned", !.status = "ok", !.error = ""]
    /\ UNCHANGED wd /\ runnerUnchanged

\* The hash loop, default case: a second of sha256.Sum256 calls.
RjHashWork ==
    /\ rj.pc = "hash_loop"
    /\ rj.now < rj.seconds
    /\ ~TimeBoxDone(rj)
    /\ rj' = [rj EXCEPT !.hashes = @ + 1, !.now = @ + 1]
    /\ UNCHANGED wd /\ runnerUnchanged

\* The hash loop, case <-ctx.Done().  runJob returns; in RunJob the break
\* leaves the select, not the for: the loop goes round on the same case for
\* as long as its condition holds.
RjHashDone ==
    /\ rj.pc = "hash_loop"
    /\ rj.now < rj.seconds
    /\ TimeBoxDone(rj)
    /\ rj' = IF rj.impl = "runJob"
             THEN [rj EXCEPT !.pc = "returned", !.status = "error",
                             !.error = "timeout/cancelled"]
             ELSE [rj EXCEPT !.status = "error", !.error = "timeout/cancelled",
                             !.now = @ + 1]
    /\ UNCHANGED wd /\ runnerUnchanged

\* time.Since(start) has reached the requested seconds: the loop ends.
RjHashEnd ==
    /\ rj.pc = "hash_loop"
    /\ rj.now >= rj.seconds
    /\ rj' = IF rj.impl = "runJob"
             THEN [rj EXCEPT !.pc = "returned", !.status = "ok", !.error = ""]
             ELSE [rj EXCEPT !.pc = "returned"]
    /\ UNCHANGED wd /\ runnerUnchanged

\* The caller has the result; the next call may come.
RjReturn ==
    /\ rj.pc = "returned"
    /\ rj' = NoRunJob
    /\ UNCHANGED wd /\ runnerUnchanged

InitRunJob ==
    /\ InitManager /\ InitLoop /\ InitExec /\ fs = EmptyDir
    /\ userPreference = "balanced" /\ numCPU = LaptopMaxCores
    /\ sbx = NewSandbox(DefaultSandboxConfig)
    /\ IdleUpdater
    /\ IdleRunner

NextRunJob ==
    \/ CallRunJob
    \/ RjParentCancel
    \/ RjSleepWait
    \/ RjSleepDone
    \/ RjSleepTimer
    \/ RjHashWork
    \/ RjHashDone
    \/ RjHashEnd
    \/ RjReturn

SpecRunJob == InitRunJob /\ [][NextRunJob]_vars


(***************************************************************************)
(* Claims about the executor and the scheduler loop, checked under Spec.   *)
(***************************************************************************)
Dest == fs.files[ArtifactPath]
Temp == fs.files[TempPath(ArtifactPath)]
MeasuredOfBody == HexEncodeToString(Sha256Sum(resp.body))
InDownload == pc \in DownloadPcs \cup {"ej_dl_ret"}
DownloadReturned == pc = "ej_dl_ret"
SandboxReached == pc \in {"ej_verify", "ej_execute"} \/ sandbox.verified \/ sandbox.started

\* C1: within ExecuteJob the sandbox (VerifyWASM, Execute) is reached only
\* after downloadAndVerify returned nil, i.e. only when the digest measured
\* over the whole downloaded body equals the job's declared digest, and the
\* bytes handed to the sandbox are that body; with a mismatching declared
\* digest (the empty string included) the sandbox is never reached.
C1_SandboxOnlyAfterVerifiedDownload ==
    /\ SandboxReached =>
          /\ dlErr = NilErr
          /\ offset = Len(resp.body)
          /\ actualSHA256 = MeasuredOfBody
          /\ actualSHA256 = job.sha256
          /\ wasmBytes = resp.body
    /\ (pc \in ExecutePcs /\ (job.sha256 = <<>> \/ job.sha256 # MeasuredOfBody)) =>
          ~SandboxReached

\* The guest was started for an artifact whose digest matched.
C1_Witness ==
    /\ sandbox.started
    /\ job.sha256 = actualSHA256
    /\ wasmBytes = ModuleBytes

\* C2: at every step of downloadAndVerify the destination is either as it was
\* before the call or holds the complete response body with the expected
\* digest; partial or unverified bytes exist only at the temporary path.
C2_DestinationNeverPartial ==
    InDownload =>
        \/ Dest = pre.files[ArtifactPath]
        \/ (Dest = File(resp.body) /\ MeasuredOfBody = job.sha256)

\* Mid-copy: part of the body is in the temp file, the old artifact is in place.
C2_Witness ==
    /\ pc = "dl_copy"
    /\ offset > 0 /\ offset < Len(resp.body)
    /\ Temp = File(SubSeq(resp.body, 1, offset))
    /\ Dest = File(<<0, 97>>)

\* C3: when the measured digest differs from the expected one, downloadAndVerify
\* returns an error naming both digests, the temp file is gone after the return
\* and the destination is exactly as before the call.
C3_MismatchLeavesDestination ==
    (DownloadReturned /\ actualSHA256 # <<>> /\ actualSHA256 # job.sha256) =>
        /\ dlErr = [kind |-> "checksum", expected |-> job.sha256, actual |-> MeasuredOfBody]
        /\ Temp = Absent
        /\ Dest = pre.files[ArtifactPath]

\* A mismatch with an earlier artifact in place, which is kept.
C3_Witness ==
    /\ DownloadReturned
    /\ dlErr.kind = "checksum"
    /\ resp.body = ModuleBytes
    /\ Dest = File(<<0, 97>>)

\* C4: when downloadAndVerify returns nil, the destination file is byte-identical
\* to the response body, its digest is the expected one, and no temp file remains.
C4_SuccessIsRoundTrip ==
    (DownloadReturned /\ dlErr = NilErr) =>
        /\ Dest = File(resp.body)
        /\ HexEncodeToString(Sha256Sum(Dest.data)) = job.sha256
        /\ Temp = Absent

\* A verified module replaced the earlier artifact.
C4_Witness ==
    /\ DownloadReturned /\ dlErr = NilErr
    /\ Dest = File(ModuleBytes)
    /\ pre.files[ArtifactPath] = File(<<0, 97>>)

\* C5: on a response status outside 2xx downloadAndVerify fails with an error
\* carrying the status code and has created neither temp nor destination file.
C5_BadStatusTouchesNothing ==
    (InDownload /\ resp.status # 0 /\ ~(resp.status \in 200..299)) =>
        /\ DownloadReturned
        /\ dlErr = [kind |-> "status", code |-> resp.status]
        /\ fs = pre

\* A 404 in a fresh job directory.
C5_Witness ==
    /\ DownloadReturned
    /\ resp.status = 404
    /\ dlErr.kind = "status"
    /\ Dest = Absent /\ Temp = Absent

\* C6: the poll and the execution of a job tick are reached only when the
\* ShouldRunJob call of that same tick returned true (ceiling > 0); a tick whose
\* ceiling is 0 polls nothing and executes nothing.
C6_TickGatedByAdmission ==
    /\ (pc \in {"poll"} \cup ExecutePcs) =>
          (tick.decided /\ tick.run /\ tick.cpu > 0)
    /\ (tick.decided /\ tick.cpu = 0) =>
          (pc \in {"select", "exited"} /\ job = NoJob /\ ~SandboxReached)
    /\ (pc \in {"select", "exited"}) => (job = NoJob /\ result = NoResult)

\* A tick decided on a freshly probed ceiling of 0: the loop is back at select.
C6_Witness ==
    /\ pc = "select"
    /\ tick.decided /\ ~tick.run /\ tick.cpu = 0
    /\ ret.op = "ShouldRunJob" /\ ret.probed /\ ret.probeOK

(***************************************************************************)
(* Claims about the resource Manager, checked under SpecResource.          *)
(***************************************************************************)
Called == ret.op # "none"
Recomputed == Called /\ ret.probed
RecomputedFromLevel == Recomputed /\ ret.probeOK

\* C7: every pair GetLimits returns (recomputed or cached, probe ok or failed,
\* any mode, any core count) has cpu in [0, capCPU] and mem in [0, capMem], the
\* cap being (60, 40) up to 8 cores and (80, 60) above; and ShouldRunJob
\* answers true exactly when the cpu value it got is greater than 0.
C7_LimitsWithinPlatformCap ==
    Called =>
        /\ ret.cpu >= 0 /\ ret.cpu <= (IF numCPU <= 8 THEN 60 ELSE 80)
        /\ ret.mem >= 0 /\ ret.mem <= (IF numCPU <= 8 THEN 40 ELSE 60)
        /\ ret.cpu = currentCPULimit /\ ret.mem = currentMemLimit
        /\ (ret.op = "ShouldRunJob" => (ret.run <=> ret.cpu > 0))

\* The cap acts: aggressive mode, fully idle, on a host of at most 8 cores.
C7_Witness ==
    /\ ret.op = "ShouldRunJob" /\ RecomputedFromLevel
    /\ userPreference = "aggressive" /\ ret.level = 100 /\ numCPU <= 8
    /\ ret.cpu = 60 /\ ret.mem = 40 /\ ret.run

\* C8: GetCoreCount returns floor(totalCores * cpu / 100), raised to 1 when
\* cpu > 0; it is 0 exactly when cpu is 0, and never more than totalCores.
C8_CoreCount ==
    ret.op = "GetCoreCount" =>
        /\ ret.cores = (IF (numCPU * ret.cpu) \div 100 < 1 /\ ret.cpu > 0
                        THEN 1 ELSE (numCPU * ret.cpu) \div 100)
        /\ (ret.cores = 0 <=> ret.cpu = 0)
        /\ (ret.cpu > 0 => ret.cores >= 1)
        /\ ret.cores <= numCPU

\* A single-core host with a non-zero ceiling is allowed its one core.
C8_Witness ==
    /\ ret.op = "GetCoreCount" /\ numCPU = 1
    /\ ret.cpu > 0 /\ ret.cpu < 100 /\ ret.cores = 1

\* The limits each named mode gives on a tier boundary: those of the tier below.
TieLimits ==
    [aggressive |-> {<<50, <<30, 25>>>>, <<80, <<50, 40>>>>},
     balanced |-> {<<30, <<10, 10>>>>, <<60, <<20, 15>>>>, <<90, <<40, 30>>>>},
     conservative |-> {<<80, <<5, 5>>>>, <<95, <<25, 20>>>>}]

\* C9: per mode the limits are a non-decreasing step function of the activity
\* level, a level on a tier boundary gets the lower tier, and the platform cap
\* is applied last; balanced at 20 gives (10, 10), idle-only at 50 gives (0, 0)
\* and ShouldRunJob false.
C9_StepFunction ==
    RecomputedFromLevel =>
        /\ \A l \in 0..ret.level :
              /\ Recompute(userPreference, [ok |-> TRUE, level |-> l], numCPU)[1] <= ret.cpu
              /\ Recompute(userPreference, [ok |-> TRUE, level |-> l], numCPU)[2] <= ret.mem
        /\ userPreference \in DOMAIN TieLimits =>
              \A t \in TieLimits[userPreference] :
                  ret.level = t[1] => <<ret.cpu, ret.mem>> = t[2]
        /\ (userPreference = "idle-only" /\ ret.level <= 95) =>
              /\ <<ret.cpu, ret.mem>> = <<0, 0>>
              /\ ~ret.run
        /\ (userPreference = "balanced" /\ ret.level = 20) => <<ret.cpu, ret.mem>> = <<10, 10>>
        /\ (userPreference = "balanced" /\ ret.level > 90) =>
              <<ret.cpu, ret.mem>> = (IF numCPU <= 8 THEN <<60, 40>> ELSE <<70, 50>>)

\* Balanced mode probed exactly on the 30 boundary.
C9_Witness ==
    /\ RecomputedFromLevel /\ userPreference = "balanced"
    /\ ret.level = 30 /\ ret.cpu = 10 /\ ret.mem = 10

\* C10: when the probe fails, GetLimits returns what the mode assigns to
\* activity level 0; in idle-only mode that is (0, 0) and ShouldRunJob is false.
C10_ProbeFailureMeansFullyActive ==
    (Recomputed /\ ~ret.probeOK) =>
        /\ <<ret.cpu, ret.mem>> = CapLimits(ModeLimits(userPreference, 0), numCPU)
        /\ userPreference = "idle-only" => (<<ret.cpu, ret.mem>> = <<0, 0>> /\ ~ret.run)

\* C11: a call made less than 5 seconds after the last recomputation returns
\* the stored pair unchanged and takes no probe (so two probes are at least 5
\* seconds apart); a call made 5 seconds or more after it probes, restarts the
\* window, and stores and returns the pair determined by the probe outcome,
\* the mode and the host alone, whatever pair was stored before.
C11_CacheWindow ==
    [][ret'.op # "none" =>
          IF sinceLastCheck < 5
          THEN /\ ~ret'.probed
               /\ sinceLastCheck' = sinceLastCheck
               /\ <<currentCPULimit', currentMemLimit'>> = <<currentCPULimit, currentMemLimit>>
               /\ <<ret'.cpu, ret'.mem>> = <<currentCPULimit, currentMemLimit>>
          ELSE /\ ret'.probed
               /\ sinceLastCheck' = 0
               /\ <<ret'.cpu, ret'.mem>> =
                      Recompute(userPreference, [ok |-> ret'.probeOK, level |-> ret'.level], numCPU)
               /\ <<currentCPULimit', currentMemLimit'>> = <<ret'.cpu, ret'.mem>>]_vars

\* A cached answer four seconds after a recomputation that stored (60, 40).
C11_Witness ==
    /\ ret.op = "GetLimits" /\ ~ret.probed
    /\ sinceLastCheck = 4
    /\ currentCPULimit = 60 /\ ret.cpu = 60 /\ ret.mem = 40

(***************************************************************************)
(* Claims about the sandbox, checked under SpecSandbox (the Sandbox on its *)
(* own) or under Spec (the sandbox inside a job run).                      *)
(***************************************************************************)
\* C12: VerifyWASM returns an error, without attempting compilation, for an
\* input shorter than 8 bytes, for one whose first 4 bytes are not "\0asm" and
\* for one whose bytes 4..7 are not 01 00 00 00; compilation is attempted only
\* when all three checks pass, and a module the engine rejects gives an error.
C12_VerifyRejectsBeforeCompiling ==
    vret.called =>
        LET b == vret.bytes
            short == Len(b) < 8
            magicOK == ~short /\ SubSeq(b, 1, 4) = <<0, 97, 115, 109>>
            versionOK == ~short /\ SubSeq(b, 5, 8) = <<1, 0, 0, 0>>
        IN  /\ (short \/ ~magicOK \/ ~versionOK) => (vret.err # "nil" /\ ~vret.compiled)
            /\ vret.compiled <=> (magicOK /\ versionOK)
            /\ b \in {Malformed, SimdModule} => (vret.compiled /\ vret.err = "WASM validation failed")
            /\ b = <<0, 97>> => vret.err = "invalid WASM: file too short"

\* A well-formed header with version 2 is refused on the version check.
C12_Witness ==
    /\ vret.called /\ vret.bytes = BadVersion
    /\ vret.err = "unsupported WASM version" /\ ~vret.compiled

StageOrder == <<"compile", "wasi", "instantiate", "getfunc", "call">>

\* C14: in a job run the guest entry point is called only after VerifyWASM
\* accepted the bytes and compilation, WASI set-up, instantiation and entry
\* point look-up succeeded, in that order; a run that fails at one of these
\* stages returns Success=false with a non-empty Error without calling the
\* guest, and so does the job.
C14_GuestOnlyAfterAllStages ==
    /\ pc = "ex_wait" =>
          /\ sandbox.verified
          /\ Len(run.bytes) >= 8
          /\ SubSeq(run.bytes, 1, 8) = <<0, 97, 115, 109, 1, 0, 0, 0>>
          /\ run.passed = SubSeq(StageOrder, 1, Len(run.passed))
          /\ run.stage \in SetupStages => run.stage = StageOrder[Len(run.passed) + 1]
          /\ (run.guest # "none" \/ sandbox.started) => run.passed = StageOrder
          /\ (run.stage = "returned" /\ run.passed # StageOrder) =>
                /\ ~run.result.Success
                /\ run.result.Error # ""
                /\ run.guest = "none"
                /\ ~sandbox.started
    /\ (result.kind = "result" /\ ~sandbox.started) =>
          (~result.success /\ result.error # "")

\* Instantiation failed in a job run: Execute returned without calling the guest.
C14_Witness ==
    /\ pc = "ex_wait" /\ run.stage = "returned"
    /\ run.passed = <<"compile", "wasi">>
    /\ run.result.Error = "WASM instantiation failed"
    /\ run.guest = "none"

\* C15: when the execution deadline expires before the guest completes,
\* Execute returns Success=false with the timeout error.
C15_DeadlineFirstMeansTimeout ==
    (run.stage = "returned" /\ run.guest # "none" /\ run.order # <<>> /\ Head(run.order) = "deadline") =>
        (~run.result.Success /\ run.result.Error = "Execution timed out")

\* The other half of C15: every Execute call returns, whatever the guest does,
\* given that the caller's goroutine is scheduled and the clock advances.
FairSpecSandbox ==
    /\ SpecSandbox
    /\ WF_vars(ExCompile) /\ WF_vars(ExWasi) /\ WF_vars(ExInstantiate) /\ WF_vars(ExGetFunc)
    /\ WF_vars(ExGo) /\ WF_vars(ExSelect) /\ WF_vars(ExUsage)
    /\ WF_vars(DeadlineFire) /\ WF_vars(ClockTick)

ExecuteEventuallyReturns ==
    (run.stage \in SetupStages \cup WaitStages) ~> (run.stage = "returned")

\* C16: ExecuteJob is over within min(timeoutSeconds, maxTimeout) of its call,
\* up to one step of the clock, whatever the artifact server does.
C16_JobBoundedByTimeout ==
    pc \in ExecutePcs => elapsed <= Min(job.maxSeconds, 1800) + TimeStep

\* C17: a guest that returns without trapping before the time budget of the
\* caller's context has elapsed is reported as a success with its return value
\* in Output, never as a timeout.
C17_InBudgetReturnIsSuccess ==
    (run.stage = "returned" /\ run.guest = "returned" /\ run.inBudget) =>
        /\ run.result.Success
        /\ run.result.Output = (IF run.value = "nil" THEN "Function executed successfully"
                                ELSE "Return value: " \o run.value)
        /\ run.result.Error # "Execution timed out"

C19_FuelUsedIsConsumed ==
    (run.stage = "returned" /\ run.taken = "done") =>
        run.result.FuelUsed = run.consumed

\* C20: the guest's linear memory never exceeds config.MaxMemoryPages pages.
C20_MemoryWithinLimit ==
    run.pages <= sbx.config.MaxMemoryPages

\* C21: when ShouldRunJob is false at the check inside ExecuteJob, the call
\* fails at once with the "system too active" error: the job directory is not
\* created, no HTTP request is made, no guest is started, and the work
\* directory is left exactly as it was before the call.
C21_DeniedTouchesNothing ==
    [][(pc = "ej_admit" /\ ret'.op = "ShouldRunJob" /\ ~ret'.run) =>
          /\ pc' = "job_done"
          /\ result' = [kind |-> "error", error |-> "system too active to run jobs"]
          /\ fs' = fs
          /\ resp' = NoResp /\ dlErr' = NoErr
          /\ run' = NoRun /\ sandbox' = IdleSandbox]_vars

\* A denied call that found the leftovers of a crashed run and left them alone.
C21_Witness ==
    /\ pc = "job_done"
    /\ result = [kind |-> "error", error |-> "system too active to run jobs"]
    /\ ret.op = "ShouldRunJob" /\ ~ret.run
    /\ fs = StaleDir

\* C22: once ExecuteJob has returned by a path that follows the creation of the
\* job directory (download failure, checksum mismatch, unreadable artifact,
\* validation failure, trap, timeout, success), the job directory and all that
\* was in it are gone.
C22_JobDirRemovedOnReturn ==
    (pc = "job_done" /\ pre.dir) =>
        /\ result.kind = "result"
        /\ ~fs.dir
        /\ \A p \in Paths : fs.files[p] = Absent

\* A job that ran to success in a directory that held an earlier artifact and
\* an earlier temp file: nothing of either is left.
C22_Witness ==
    /\ pc = "job_done"
    /\ result.kind = "result" /\ result.success
    /\ pre = StaleDir
    /\ fs = EmptyDir

C24_OneBranchAtATime ==
    [][/\ pc # "select" =>
            /\ pc' # "exited"
            /\ pc' = "poll" => pc = "poll"
            /\ ctxCancelled' = ctxCancelled
            /\ ret'.op \in {"GetLimits"} => ret' = ret
            /\ tick' # tick => (pc = "poll" /\ pc' = "select" /\ tick' = NoTick)
                                \/ (pc = "job_done" /\ pc' = "select" /\ tick' = NoTick)
            /\ pc' = "select" => pc \in {"poll", "job_done"}
       /\ (pc' = "ej_admit" /\ pc # "ej_admit") =>
            /\ pc = "poll"
            /\ result = NoResult /\ sandbox = IdleSandbox /\ dlErr = NoErr
            /\ run.stage = "idle"]_vars

\* A download that has been going on for 30 seconds: the job ticker and the
\* heartbeat ticker have both come due, and the loop is still in this branch.
C24_Witness ==
    /\ pc = "dl_copy"
    /\ offset > 0 /\ offset < Len(resp.body)
    /\ elapsed >= 30
    /\ tick.decided /\ tick.run

\* C25: a shutdown signal that arrives while a job is in flight (download or
\* guest execution) cancels the job's context at once: no step of the clock
\* passes inside ExecuteJob with the signal delivered and the context still
\* uncancelled.
C25_SignalReachesJobInFlight ==
    [][(sigChan.pending /\ sigChan.inJob /\ pc \in ExecutePcs \ {"job_done"}
        /\ (elapsed' > elapsed \/ run'.t > run.t)) =>
          ctxCancelled']_vars

(***************************************************************************)
(* Claims about the updater, checked under SpecUpdater.                    *)
(***************************************************************************)
\* The number a sequence of decimal digits writes.
RECURSIVE DecimalValue(_)
DecimalValue(ds) ==
    IF ds = <<>> THEN 0
    ELSE 10 * DecimalValue(SubSeq(ds, 1, Len(ds) - 1)) + (Ascii(ds[Len(ds)]) - 48)

\* The dot-separated fields of a version string.
RECURSIVE Fields(_)
Fields(s) ==
    IF \A i \in 1..Len(s) : s[i] # "." THEN <<s>>
    ELSE LET dot == CHOOSE i \in 1..Len(s) : s[i] = "." /\ \A j \in 1..(i - 1) : s[j] # "."
         IN  <<SubSeq(s, 1, dot - 1)>> \o Fields(SubSeq(s, dot + 1, Len(s)))

\* major.minor.patch as three numbers, and their ordering.
SemVer(s) == [k \in 1..3 |-> DecimalValue(Fields(s)[k])]
SemVerGreater(a, b) ==
    \/ a[1] > b[1]
    \/ a[1] = b[1] /\ a[2] > b[2]
    \/ a[1] = b[1] /\ a[2] = b[2] /\ a[3] > b[3]

\* C26: CheckForUpdate reports hasUpdate exactly when the release tag, its
\* leading "v" stripped, is greater than the current version in numeric
\* major.minor.patch order; equal and older releases give false.
C26_HasUpdateIsSemVerGreater ==
    upd.checked =>
        (upd.hasUpdate <=> SemVerGreater(SemVer(TrimPrefix(upd.tagName, <<"v">>)),
                                         SemVer(TrimPrefix(currentVersion, <<"v">>))))

Exe == ufs.files[ExePath]
Backup == ufs.files[BackupPath(ExePath)]
PreExe == upd.pre.files[ExePath]
AfterBackupSteps == {"stat", "chmod", "rename", "exec"}
ApplyFailedAfterBackup == upc = "returned" /\ upd.failedAt \in AfterBackupSteps

C28_CanonicalAlwaysComplete ==
    upc # "idle" =>
        \/ Exe = PreExe
        \/ /\ upc \in {"ap_exec", "relaunched", "rollback", "returned"}
           /\ upd.off = Len(upd.resp.body)
           /\ Exe = File(upd.resp.body)

\* C29: a Rollback that fails (no backup found, or its rename refused) reaches
\* the caller of CheckAndUpdate as an error of its own, different from the
\* error returned when the update failed and was rolled back.
C29_RollbackFailureSurfaced ==
    (upc = "returned" /\ upd.rollback \notin {"none", "nil"}) =>
        upd.err \notin {"nil", "failed to apply update"}

\* The digest the publisher of the release gives for this platform's asset.
ExpectedChecksum == HexEncodeToString(Sha256Sum(NewBinary))
ApplyBeforeReplace == {"bk_open", "bk_create", "bk_copy", "ap_stat", "ap_chmod", "ap_rename"}

\* C30: ApplyUpdate is only entered with a downloaded file whose SHA-256 digest
\* was verified against the expected digest, so the file that replaces the
\* canonical executable passes VerifyChecksum and one that fails it is never
\* applied.
C30_OnlyVerifiedBinaryApplied ==
    /\ upc \in ApplyBeforeReplace => VerifyChecksum(ufs, UpdatePath, ExpectedChecksum) = "nil"
    /\ upc \in {"ap_exec", "relaunched"} => VerifyChecksum(ufs, ExePath, ExpectedChecksum) = "nil"

\* C31: when the release has no asset named for this platform, DownloadUpdate
\* fails without sending a download request and CheckAndUpdate returns that
\* error: no backup is made, Rollback is not called, and the canonical
\* executable, like every other file, is as it was.
C31_NoAssetTouchesNothing ==
    (upc \notin {"idle", "check", "du_asset"} /\ upd.hasUpdate /\ upd.autoApply
     /\ AssetName \notin upd.assets) =>
        /\ upc = "returned"
        /\ upd.failedAt = "asset" /\ upd.err = "failed to download update"
        /\ upd.resp = NoResp
        /\ upd.rollback = "none"
        /\ ufs = upd.pre

\* A release that only carries the Windows asset, met by an agent that has an
\* old backup beside its executable.
C31_Witness ==
    /\ upc = "returned" /\ upd.failedAt = "asset"
    /\ upd.assets = {"idlenet-windows-amd64.exe"}
    /\ Exe = File(OrigExe) /\ Backup = File(OldBackup)

PreBackup == upd.pre.files[BackupPath(ExePath)]
DownloadFailed ==
    \/ upd.failedAt \in {"get", "create", "copy"}
    \/ upd.resp.status # 0 /\ upd.resp.status \notin 200..299

\* C33: when the download of the update fails (network error, a status outside
\* 2xx, or a body that could not be written in full) the attempt is abandoned:
\* CheckAndUpdate returns the download error, ApplyUpdate is not called, and
\* the canonical executable and its backup are unchanged.
C33_FailedDownloadAbandons ==
    DownloadFailed =>
        /\ upc = "returned"
        /\ upd.err = "failed to download update"
        /\ upd.rollback = "none"
        /\ Exe = PreExe /\ Backup = PreBackup

ApplyPcs == {"bk_open", "bk_create", "bk_copy", "ap_stat", "ap_chmod", "ap_rename", "ap_exec"}

\* C34: inside ApplyUpdate the canonical path is changed only by the replacing
\* rename, and only when <exe>.backup holds a complete copy of the executable
\* made in this call; and a CheckAndUpdate that finds no update, or is called
\* with autoApply false, returns nil and leaves every file as it was.
C34_BackupBeforeReplace ==
    [][/\ (upc \in ApplyPcs /\ ufs'.files[ExePath] # Exe) =>
            /\ upc = "ap_rename"
            /\ Backup = Exe /\ Backup = PreExe
            /\ ufs'.files[BackupPath(ExePath)] = Backup
       /\ (upc = "check" /\ upd'.checked /\ ~(upd'.hasUpdate /\ upd'.autoApply)) =>
            /\ upc' = "returned" /\ upd'.err = "nil"
            /\ ufs' = ufs /\ ufs = upd.pre]_vars

\* The new binary has replaced the executable; the backup made in this call has
\* replaced the one an earlier update left.
C34_Witness ==
    /\ upc = "ap_exec"
    /\ Exe = File(NewBinary)
    /\ PreBackup = File(OldBackup)
    /\ Backup = File(OrigExe)

\* C36: when ApplyUpdate fails in the backup step itself (the executable cannot
\* be opened, the backup cannot be created, or the copy stops part-way), the
\* canonical executable after CheckAndUpdate has returned, Rollback included,
\* is byte-identical to what it was before, with or without an older backup.
C36_FailedBackupLeavesExecutable ==
    (upc = "returned" /\ upd.failedAt \in {"backup_open", "backup_create", "backup_copy"}) =>
        Exe = PreExe

\* C35: when the loop receives the shutdown signal it calls cancel(); from then
\* on, whatever ticks are ready at its select, it comes to take the ctx.Done
\* branch and returns; and once it has returned nothing more happens in it: no
\* heartbeat, no poll, no job.
C35_ShutdownEventuallyExits ==
    /\ [][(sigChan.pending /\ ~sigChan'.pending) => (pc = "select" /\ ctxCancelled')]_vars
    /\ ctxCancelled ~> (pc = "exited")
    /\ [][pc # "exited" \/ UNCHANGED <<pc, tick, job, ret, result, run, fs>>]_vars

\* The loop has returned after a cancel() that found a job tick already decided.
C35_Witness ==
    /\ pc = "exited" /\ ctxCancelled
    /\ ~sigChan.pending
    /\ tick.decided

\* C37: from the moment Execute has left its select, on the timeout branch or
\* on the completion branch, the guest call has ended: the read of the store's
\* fuel counter and the return find no goroutine still running guest code on
\* the store, so the next job's guest never runs next to this one's.
C37_GuestEndedWhenExecuteReturns ==
    run.stage \in {"usage", "returned"} => run.guest # "running"

\* C38: every pair a Manager hands out, from the first call on a new Manager,
\* is a pair the GetLimits computation gives for some probe outcome, never the
\* zero values of a Manager that has not computed yet; so ShouldRunJob on a
\* balanced Manager, whose computed ceiling is at least 10, answers true.
C38_LimitsAlwaysComputed ==
    /\ Called =>
          <<ret.cpu, ret.mem>> \in {Recompute(userPreference, p, numCPU) : p \in Probes}
    /\ (ret.op = "ShouldRunJob" /\ userPreference = "balanced") => ret.run

\* Where a RunJob call that has returned was dispatched to.
Returned == rj.pc = "returned"
Supported == Dispatch(rj.jobType) # "default"

\* C32: a job of any type other than "sleep" and "hash" is answered "skipped"
\* with the error "unsupported job type", at once: no timer was created, no
\* hash computed, no time spent.  And a call returns "ok" only with an empty
\* error, for a supported type, when the requested seconds have passed.
C32_UnsupportedTypeIsSkipped ==
    Returned =>
        /\ ~Supported =>
              /\ rj.status = "skipped" /\ rj.error = "unsupported job type"
              /\ rj.timers = 0 /\ rj.hashes = 0 /\ rj.now = 0
        /\ rj.status = "ok" =>
              /\ rj.error = ""
              /\ rj.jobType \in {"sleep", "hash"}
              /\ rj.now >= rj.seconds

\* A job of a type the runner does not know came back skipped.
C32_Witness ==
    /\ Returned /\ rj.jobType = "wasm"
    /\ rj.status = "skipped" /\ rj.now = 0

\* C40: a call never lasts beyond the moment its context is done (the time box
\* of timeoutSec seconds, 30 when timeoutSec <= 0, or the parent's cancel), and
\* a supported job that comes back before its requested seconds have passed
\* comes back with status "error" and error "timeout/cancelled".
C40_StopsAtTimeBox ==
    /\ rj.pc \in RunningPcs \cup {"returned"} => rj.now <= ExpiresAt(rj)
    /\ (Returned /\ Supported /\ rj.now < rj.seconds) =>
          (rj.status = "error" /\ rj.error = "timeout/cancelled")

\* C39: whatever the job id, the directory ExecuteJob makes and removes lies
\* strictly below the work root; the work root and the directories outside it
\* are still there after the removal.
C39_JobDirBelowWorkRoot ==
    /\ (wd.pc = "running" \/ wd.removed) => ProperDescendant(wd.jobDir, WorkDir)
    /\ wd.removed => (WorkDir \in wd.tree /\ Documents \in wd.tree)

====
